---- MODULE Spec2Model ----
(***************************************************************************)
(* safeshell: sandboxed command execution.                                 *)
(*                                                                         *)
(* One sandbox handle (NativeSandbox, DockerSandbox or LocalSandbox,       *)
(* chosen with its configuration in Init) is driven by a bounded number of *)
(* asyncio tasks.  Every task performs one call, execute(command, timeout) *)
(* or close(), and is suspended only where the code awaits something that  *)
(* really yields to the event loop: AllowlistProxy.start, the wait for the *)
(* child under the deadline, proc.wait() and Server.wait_closed().  All    *)
(* code between two such points is one atomic action (single-threaded      *)
(* cooperative scheduling).                                                *)
(***************************************************************************)
EXTENDS Integers, Sequences, FiniteSets, TLC

(***************************************************************************)
(* Bounds of the model.                                                    *)
(***************************************************************************)
MaxCalls == 3
NumPorts == 1
MaxTimeout == 1
MaxConns == 2
MaxProxyOps == 3
MaxAdds == 1
MaxLists == 3
MaxDomains == 1
MaxReads == 2
MaxTools == 2
MaxPolicies == 2
MaxCallerSets == 1
MaxCap == 2
MaxOut == 4

Calls == 1..MaxCalls
(* the ports the kernel can assign; 0 is "no port" *)
Ports == 1..NumPorts
(* the connections clients open to one proxy *)
Conns == 1..MaxConns

(* Optional[T]: None is the empty set, a value x is {x}. *)
None == {}
Some(x) == {x}
TheValue(o) == CHOOSE x \in o : TRUE

(***************************************************************************)
(* Commands are strings, modelled as sequences of one-character strings.   *)
(***************************************************************************)
Cmd_ls == <<"l", "s">>
Cmd_rm_rf_root == <<"r", "m", " ", "-", "r", "f", " ", "/">>
(* the commands the callers pass: a harmless one and a dangerous one *)
CommandsOf(backend) ==
    IF backend = "local" THEN {Cmd_ls, Cmd_rm_rf_root} ELSE {Cmd_rm_rf_root}

(* timeout arguments of execute: None, or a number of time units *)
TimeoutArgs == {None} \cup {Some(n) : n \in 0..(MaxTimeout - 1)}

(***************************************************************************)
(* Regular expressions (the subset of Python's re that the rules use) as   *)
(* syntax trees, and re.Pattern.search over a sequence of characters.      *)
(***************************************************************************)
Lower == {"a", "b", "c", "d", "e", "f", "g", "h", "i", "j", "k", "l", "m",
          "n", "o", "p", "q", "r", "s", "t", "u", "v", "w", "x", "y", "z"}
Upper == {"A", "B", "C", "D", "E", "F", "G", "H", "I", "J", "K", "L", "M",
          "N", "O", "P", "Q", "R", "S", "T", "U", "V", "W", "X", "Y", "Z"}
Digits == {"0", "1", "2", "3", "4", "5", "6", "7", "8", "9"}
WordChars == Lower \cup Upper \cup Digits \cup {"_"}
Whitespace == {" ", "\t", "\n", "\r", "\f"}

Lit(c) == <<"lit", c>>
Cls(set) == <<"cls", set>>
Dot == <<"any">>
WB == <<"wb">>
Cat(rs) == <<"seq", rs>>
Alt(rs) == <<"alt", rs>>
Star(r) == <<"star", r>>
Plus(r) == <<"plus", r>>
Opt(r) == <<"opt", r>>
WS == Cls(Whitespace)
Str(s) == Cat([k \in 1..Len(s) |-> Lit(s[k])])

(* \b: position i (before s[i]) is a word boundary *)
IsWordAt(s, i) == i >= 1 /\ i <= Len(s) /\ s[i] \in WordChars
BackspaceAt(s, i) == FALSE   \* "\b" outside a raw string: no command has one
AtWordBoundary(s, i) == IsWordAt(s, i - 1) # IsWordAt(s, i)

RECURSIVE Ends(_, _, _), SeqEnds(_, _, _, _), StarEnds(_, _, _, _)
(* the positions where a match of r that starts at position i can end *)
Ends(r, s, i) ==
    CASE r[1] = "lit" -> IF i <= Len(s) /\ s[i] = r[2] THEN {i + 1} ELSE {}
      [] r[1] = "cls" -> IF i <= Len(s) /\ s[i] \in r[2] THEN {i + 1} ELSE {}
      [] r[1] = "any" -> IF i <= Len(s) /\ s[i] # "\n" THEN {i + 1} ELSE {}
      [] r[1] = "wb" -> IF AtWordBoundary(s, i) THEN {i} ELSE {}
      [] r[1] = "seq" -> SeqEnds(r[2], 1, s, {i})
      [] r[1] = "alt" -> UNION {Ends(r[2][k], s, i) : k \in 1..Len(r[2])}
      [] r[1] = "star" -> StarEnds(r[2], s, {i}, {i})
      [] r[1] = "plus" -> LET once == Ends(r[2], s, i)
                          IN  StarEnds(r[2], s, once, once)
      [] r[1] = "opt" -> {i} \cup Ends(r[2], s, i)

SeqEnds(rs, k, s, from) ==
    IF k > Len(rs) \/ from = {} THEN from
    ELSE SeqEnds(rs, k + 1, s, UNION {Ends(rs[k], s, i) : i \in from})

StarEnds(r, s, seen, frontier) ==
    LET next == UNION {Ends(r, s, i) : i \in frontier} \ seen
    IN  IF next = {} THEN seen ELSE StarEnds(r, s, seen \cup next, next)

(* pattern.search(s): a match starting anywhere *)
Search(r, s) == \E i \in 1..(Len(s) + 1) : Ends(r, s, i) # {}

(***************************************************************************)
(* security/policy.py                                                      *)
(***************************************************************************)
DANGEROUS_PATTERNS == <<
    <<Cat(<<WB, Str(<<"r", "m">>), Plus(WS),
            Star(Cat(<<Lit("-"), Plus(Cls({"r", "f"})), Plus(WS)>>)),
            Cls({"/", "~"})>>),
      "Recursive delete of root or home directory">>,
    <<Cat(<<WB, Str(<<"r", "m">>), Plus(WS), Lit("-"), Star(Cls({"r", "f"})),
            Plus(WS), Lit("-"), Star(Cls({"r", "f"})), Plus(WS), Lit("/")>>),
      "Recursive delete of root directory">>,
    <<Cat(<<WB, Str(<<"c", "u", "r", "l">>), WB, Star(Dot), Lit("|"), Star(WS),
            Opt(Str(<<"b", "a">>)), Str(<<"s", "h">>)>>),
      "Remote code execution via curl|sh">>,
    <<Cat(<<WB, Str(<<"w", "g", "e", "t">>), WB, Star(Dot), Lit("|"), Star(WS),
            Opt(Str(<<"b", "a">>)), Str(<<"s", "h">>)>>),
      "Remote code execution via wget|sh">>,
    <<Cat(<<WB, Str(<<"c", "u", "r", "l">>), WB, Star(Dot), Lit("|"), Star(WS),
            Str(<<"p", "y", "t", "h", "o", "n">>)>>),
      "Remote code execution via curl|python">>,
    <<Cat(<<WB, Str(<<"w", "g", "e", "t">>), WB, Star(Dot), Lit("|"), Star(WS),
            Str(<<"p", "y", "t", "h", "o", "n">>)>>),
      "Remote code execution via wget|python">>,
    <<Cat(<<Lit(":"), Star(WS), Lit("("), Star(WS), Lit(")"), Star(WS),
            Lit("{"), Star(Dot), Lit("}")>>),
      "Fork bomb pattern">>,
    <<Cat(<<WB, Str(<<"y", "e", "s">>), Star(WS), Lit("|")>>),
      "Infinite output pipe">>,
    <<Cat(<<Lit(">"), Star(WS), Str(<<"/", "d", "e", "v", "/", "s", "d">>), Cls(Lower)>>),
      "Direct disk write">>,
    <<Cat(<<Lit(">"), Star(WS), Str(<<"/", "d", "e", "v", "/", "n", "v", "m", "e">>)>>),
      "Direct NVMe write">>,
    <<Cat(<<WB, Str(<<"d", "d">>), WB, Star(Dot), Str(<<"o", "f", "=", "/", "d", "e", "v", "/">>)>>),
      "Direct disk write via dd">>,
    <<Cat(<<WB, Str(<<"m", "k", "f", "s">>), WB>>),
      "Filesystem creation/destruction">>,
    <<Cat(<<WB, Str(<<"s", "u", "d", "o">>), WB>>),
      "Privilege escalation via sudo">>,
    <<Cat(<<WB, Str(<<"s", "u">>), Plus(WS), Lit("-")>>),
      "Privilege escalation via su">>,
    <<Cat(<<WB, Str(<<"c", "h", "m", "o", "d">>), Plus(WS),
            Star(Cls({"0", "1", "2", "3", "4", "5", "6", "7"})), Str(<<"7", "7", "7">>),
            Plus(WS), Lit("/")>>),
      "Dangerous permission change on root">>,
    <<Cat(<<WB, Str(<<"c", "h", "o", "w", "n">>), Plus(WS), Str(<<"-", "R">>), Plus(WS), Star(Dot),
            Plus(WS), Lit("/")>>),
      "Recursive ownership change on root">>,
    <<Cat(<<WB, Str(<<"s", "y", "s", "t", "e", "m", "c", "t", "l">>), Plus(WS),
            Alt(<<Str(<<"s", "t", "o", "p">>), Str(<<"d", "i", "s", "a", "b", "l", "e">>), Str(<<"m", "a", "s", "k">>)>>)>>),
      "Service disruption">>,
    <<Cat(<<WB, Str(<<"k", "i", "l", "l", "a", "l", "l">>), WB>>),
      "Mass process termination">>,
    <<Cat(<<WB, Str(<<"p", "k", "i", "l", "l">>), Plus(WS), Str(<<"-", "9">>)>>),
      "Forceful process termination">>,
    <<Cat(<<WB, Str(<<"n", "c">>), Plus(WS), Str(<<"-", "l">>)>>),
      "Netcat listener (potential backdoor)">>,
    <<Cat(<<WB, Str(<<"s", "s", "h">>), Plus(WS), Star(Dot), Lit("@")>>),
      "SSH connection">> >>

(* SecurityPolicy: dataclass fields and __post_init__ *)
SecurityPolicy(level, blocked_patterns, allowed_commands) ==
    [level |-> level,
     blocked_patterns |-> IF level = "STANDARD" /\ blocked_patterns = <<>>
                          THEN DANGEROUS_PATTERNS
                          ELSE blocked_patterns,
     allowed_commands |-> allowed_commands]

permissive == SecurityPolicy("PERMISSIVE", <<>>, {})
standard == SecurityPolicy("STANDARD", DANGEROUS_PATTERNS, {})
paranoid(allowed) == SecurityPolicy("PARANOID", <<>>, allowed)

(* str.strip().split(): the maximal runs of non-whitespace characters *)
RECURSIVE SplitFrom(_, _, _, _)
SplitFrom(s, i, cur, acc) ==
    IF i > Len(s)
    THEN IF cur = <<>> THEN acc ELSE Append(acc, cur)
    ELSE IF s[i] \in Whitespace
         THEN SplitFrom(s, i + 1, <<>>,
                        IF cur = <<>> THEN acc ELSE Append(acc, cur))
         ELSE SplitFrom(s, i + 1, Append(cur, s[i]), acc)
Split(s) == SplitFrom(s, 1, <<>>, <<>>)

(* part.split("/")[-1]: what follows the last "/" *)
LastSlash(w) ==
    IF \E k \in 1..Len(w) : w[k] = "/"
    THEN CHOOSE k \in 1..Len(w) :
             w[k] = "/" /\ \A m \in (k + 1)..Len(w) : w[m] # "/"
    ELSE 0
Basename(w) == SubSeq(w, LastSlash(w) + 1, Len(w))

(* the base command: first word without "=", directories stripped *)
BaseCommandOfFirstWord(command) ==
    IF Split(command) = <<>> THEN <<>> ELSE Basename(Split(command)[1])
BaseCommand(command) ==
    LET parts == Split(command)
        idx == {k \in 1..Len(parts) : \A m \in 1..Len(parts[k]) : parts[k][m] # "="}
    IN  IF idx = {} THEN <<>>
        ELSE Basename(parts[CHOOSE k \in idx : \A m \in idx : k <= m])

(* index of the first blocking rule that matches, 0 when none does *)
LastMatch(patterns, command) ==
    LET hits == {k \in 1..Len(patterns) : Search(patterns[k][1], command)}
    IN  IF hits = {} THEN 0 ELSE CHOOSE k \in hits : \A m \in hits : k >= m
FirstMatch(patterns, command) ==
    LET hits == {k \in 1..Len(patterns) : Search(patterns[k][1], command)}
    IN  IF hits = {} THEN 0 ELSE CHOOSE k \in hits : \A m \in hits : k <= m

(* check_command: the command when it is admitted, else the violation *)
AdmittedStripped(command) ==
    LET kept == {k \in 1..Len(command) : command[k] \notin Whitespace}
    IN  [raised |-> FALSE,
         value |-> IF kept = {} THEN <<>>
                   ELSE SubSeq(command,
                               CHOOSE k \in kept : \A m \in kept : k <= m,
                               CHOOSE k \in kept : \A m \in kept : k >= m),
         reason |-> ""]
Admitted(command) == [raised |-> FALSE, value |-> command, reason |-> ""]
SecurityViolation(reason, command) ==
    [raised |-> TRUE, value |-> command, reason |-> reason]

check_command(policy, command) ==
    IF policy.level = "PERMISSIVE" THEN Admitted(command)
    ELSE LET hit == FirstMatch(policy.blocked_patterns, command)
         IN  IF hit # 0
             THEN SecurityViolation(policy.blocked_patterns[hit][2], command)
             ELSE IF policy.level = "PARANOID"
                     /\ BaseCommand(command) # <<>>
                     /\ BaseCommand(command) \notin policy.allowed_commands
                  THEN SecurityViolation(
                           <<"Command '", BaseCommand(command), "' not in allowlist">>,
                           command)
                  ELSE Admitted(command)

(***************************************************************************)
(* Values                                                                  *)
(***************************************************************************)
NetworkModes == {"BLOCKED", "ALLOWED", "ALLOWLIST"}
ProxyVars == {"HTTP_PROXY", "HTTPS_PROXY", "http_proxy", "https_proxy"}

(* f"http://127.0.0.1:{port}" *)
ProxyUrl(port) == "http://127.0.0.1:" \o ToString(port)

(* the allow-list the proxy is constructed with *)
ProxyAllowlist == [domains |-> {<<"e", "x", "a", "m", "p", "l", "e", ".", "c", "o", "m">>}]
(* NetworkAllowlist objects the sandbox can be constructed with *)
Allowlists == {ProxyAllowlist}

(* what a child can do on its own: exit with a status, or die by a signal; *)
(* Popen.returncode is the status, or minus the signal number              *)
ExitStatuses == {0, 1}
Signals == {1}
ReturnCodes == ExitStatuses \cup {0 - sig : sig \in Signals}

(* the bytes a child writes to its two pipes *)
Bytes_hi == <<"h", "i">>
ChildOutputs == {[stdout |-> Bytes_hi, stderr |-> <<>>]}

(* how long a child can run before it terminates on its own *)
Durations == 0..MaxTimeout

(* what a call produced *)
NoResult == [kind |-> "none", exc |-> "", value |-> <<>>]
Raised(exc) == [kind |-> "raise", exc |-> exc, value |-> <<>>]
Returned(v) == [kind |-> "return", exc |-> "", value |-> v]

NoCall == [op |-> "none", pc |-> "new", command |-> <<>>, timeout |-> None,
           proxy |-> 0]
NoChild == [state |-> "none", command |-> <<>>, checked |-> FALSE,
            env |-> <<>>, pipes_open |-> FALSE]
NoOutcome == [op |-> "none", command |-> <<>>, timeout |-> None,
              duration |-> 0, result |-> NoResult, child |-> "none",
              pipes_open |-> FALSE]

(* AllowlistProxy.__init__ *)
NewProxy == [server |-> FALSE, port |-> 0, listening |-> FALSE]

(* one client connection of an AllowlistProxy: where its _handle_client    *)
(* task is suspended, the address it dials, the bytes it wrote to the      *)
(* client, the outbound connection, the two copiers of _pipe               *)
NoConn == [pc |-> "idle", method |-> <<>>, host |-> <<>>, port |-> <<>>,
           sent |-> <<>>, remote |-> "none", up |-> "-", down |-> "-"]
(* what the _handle_client task that finished last did *)
NoServed == [line |-> <<>>, event |-> "none", method |-> <<>>,
             dialled |-> None, sent |-> <<>>, response |-> <<>>,
             remote |-> "none", closed |-> FALSE, escaped |-> FALSE]
(* the task that owns a proxy: its start and stop calls *)
NoOwner == [log |-> <<>>, start |-> FALSE, stop |-> FALSE, last |-> NoResult]
(* what the last call on a policy did: op, its command, and whether it    *)
(* raised (out is what check_command produces)                             *)
Verdict(op, command, out) ==
    [op |-> op, command |-> command, raised |-> out.raised,
     value |-> out.value, reason |-> out.reason]

(***************************************************************************)
(* State                                                                   *)
(***************************************************************************)
(***************************************************************************)
(* NativeSandbox: the kernel isolation the host offers                     *)
(***************************************************************************)
(* str.split(sep) *)
RECURSIVE split(_, _)
split(s, sep) ==
    IF \E k \in 1..Len(s) : s[k] = sep
    THEN LET j == CHOOSE k \in 1..Len(s) :
                      s[k] = sep /\ \A m \in 1..(k - 1) : s[m] # sep
         IN  <<SubSeq(s, 1, j - 1)>> \o split(SubSeq(s, j + 1, Len(s)), sep)
    ELSE <<s>>

(* int(s) of a str: None stands for ValueError (no digit, or a character   *)
(* that is not a decimal digit)                                            *)
RECURSIVE int(_)
int(s) ==
    LET digits == <<"0", "1", "2", "3", "4", "5", "6", "7", "8", "9">>
        n == Len(s)
    IN  IF n = 0 \/ \E k \in 1..n : \A d \in 1..10 : digits[d] # s[k]
        THEN None
        ELSE LET last == (CHOOSE d \in 1..10 : digits[d] = s[n]) - 1
             IN  IF n = 1 THEN Some(last)
                 ELSE Some(10 * TheValue(int(SubSeq(s, 1, n - 1))) + last)

(* where the process runs: platform.system(), platform.release() and       *)
(* shutil.which("sandbox-exec")                                            *)
Platform(system, release, which) ==
    [system |-> system, release |-> release, which |-> which]
Linux_5_13 == Platform("Linux", <<"5", ".", "1", "3", ".", "0", "-", "9", "1", "-", "g", "e", "n", "e", "r", "i", "c">>, None)
Platforms ==
    {Platform("Darwin", <<"2", "3", ".", "1", ".", "0">>, Some("/usr/bin/sandbox-exec")),
     Platform("Darwin", <<"2", "3", ".", "1", ".", "0">>, None),
     Linux_5_13,
     Platform("Linux", <<"5", ".", "1", "2", ".", "9">>, None),
     Platform("Linux", <<"6", ".", "1">>, None),
     Platform("Linux", <<"4", ".", "1", "9", ".", "1">>, Some("/opt/bin/sandbox-exec")),
     Platform("Linux", <<"5">>, None),
     Platform("Linux", <<"6", ".", "x">>, None),
     Platform("Windows", <<"1", "0", ".", "0">>, None)}

(* major > 5 or (major == 5 and minor >= 13) *)
SupportedAfter_5_13(major, minor) == major > 5 \/ (major = 5 /\ minor > 13)
Supported(major, minor) == major > 5 \/ (major = 5 /\ minor >= 13)

(* _detect_kernel_isolation: IndexError and ValueError are swallowed *)
detect_kernel_isolation(h) ==
    IF h.system = "Darwin"
    THEN IF h.which # None THEN "SEATBELT" ELSE "NONE"
    ELSE IF h.system = "Linux"
    THEN LET rel == split(h.release, ".")
         IN  IF int(rel[1]) = None \/ Len(rel) < 2 THEN "NONE"
             ELSE LET major == int(rel[1])
                      minor == int(split(rel[2], "-")[1])
                  IN  IF minor = None THEN "NONE"
                      ELSE IF Supported(TheValue(major), TheValue(minor))
                      THEN "LANDLOCK"
                      ELSE "NONE"
    ELSE "NONE"

(* NativeSandbox._build_command: which builder makes the argument list,    *)
(* and what it is given                                                    *)
build_command(mech, network, command) ==
    LET allow_net == network # "BLOCKED"
    IN  IF mech = "SEATBELT"
        THEN [via |-> "build_seatbelt", command |-> command,
              allow_network |-> allow_net]
        ELSE IF mech = "LANDLOCK"
        THEN [via |-> "build_landlock", command |-> command,
              allow_network |-> allow_net]
        ELSE [via |-> "bash -c", command |-> command]

VARIABLES
    platform,       \* the machine the process runs on
    mechanism,      \* NativeSandbox._mechanism
    cfg,            \* constructor arguments kept by the handle
    closed,         \* self._closed
    proxyRef,       \* self._proxy: 0 is None, else an index into proxies
    proxy_port,     \* self._proxy_port
    security,       \* LocalSandbox._security (None on the other backends)
    overlay_dir,    \* LocalSandbox._overlay_dir (Optional)
    overlay_exists, \* the overlay directory exists on disk
    proxies,        \* every AllowlistProxy object created so far
    environ,        \* os.environ of the parent process
    calls,          \* the tasks: one execute or close call each
    child,          \* the subprocess each call spawned
    returned,       \* the outcome of the call that finished last
    stops,          \* how many times Server.close() was invoked
    rmtrees,        \* how many times shutil.rmtree was invoked
    px,             \* an AllowlistProxy driven on its own
    owner,          \* the start and stop calls made on px
    conns,          \* the client connections of px
    served,         \* the outcome of the handler of px that finished last
    the_policy,     \* a SecurityPolicy driven on its own (Optional)
    policy_out,     \* the outcome of the last call made on the_policy
    allowlists,     \* the NetworkAllowlist objects made so far
    applied,        \* the last call made on them or on a function, with its result
    disk,           \* the files on disk: text by absolute path
    scope,          \* how the async with block around the sandbox was left
    heap            \* policy objects and the list and set objects they hold

vars == <<platform, mechanism, cfg, closed, proxyRef, proxy_port, security, overlay_dir,
          overlay_exists, proxies, environ, calls, child, returned, stops,
          rmtrees, px, owner, conns, served, the_policy, policy_out,
          allowlists, applied, disk, scope, heap>>

handle == <<platform, mechanism, cfg, closed, proxyRef, proxy_port, security,
            overlay_dir, overlay_exists, proxies, environ, stops, rmtrees>>

(* the sandbox: handle, calls and children *)
sandbox == <<handle, calls, child, returned>>
(* the proxy and the policy that are driven on their own *)
aside == <<px, owner, conns, served, the_policy, policy_out,
           allowlists, applied, disk, scope, heap>>

(***************************************************************************)
(* Files.  A path is a str; the files on disk are text by resolved path,   *)
(* the names from the root down.                                           *)
(***************************************************************************)
(* Path(cwd).resolve(): the directory the sandbox is made for *)
Cwd == <<"/", "s", "r", "c">>
(* tempfile.mkdtemp(prefix="safeshell_") *)
Mkdtemp == <<"/", "t", "m", "p", "/", "s", "a", "f", "e", "s", "h", "e", "l", "l", "_", "1">>

(* Path.__truediv__: an absolute right operand replaces the left one *)
Truediv(base, path) ==
    IF path # <<>> /\ path[1] = "/" THEN path ELSE base \o <<"/">> \o path

(* the file the operating system opens for a path: empty names and "." are  *)
(* skipped, ".." steps to the parent and stays at the root (no symbolic     *)
(* links, every directory stepped through exists)                           *)
RECURSIVE Walk(_, _)
Walk(at, names) ==
    IF names = <<>> THEN at
    ELSE LET name == Head(names)
         IN  Walk(IF name = <<>> \/ name = <<".">> THEN at
                  ELSE IF name = <<".", ".">>
                  THEN SubSeq(at, 1, Len(at) - 1)
                  ELSE Append(at, name),
                  Tail(names))
Resolve(path) == Walk(<<>>, split(path, "/"))

(* the files below a directory *)
Under(dir, file) ==
    Len(file) > Len(dir) /\ SubSeq(file, 1, Len(dir)) = dir
Below(d, dir) == [f \in {g \in DOMAIN d : Under(dir, g)} |-> d[f]]

(* Path.write_text after parent.mkdir(parents=True, exist_ok=True) *)
write_text(d, file, text) ==
    [f \in DOMAIN d \cup {file} |-> IF f = file THEN text ELSE d[f]]

(* shutil.copytree(src, dst, dirs_exist_ok=True) *)
copytree(d, src, dst) ==
    LET copy(f) == dst \o SubSeq(f, Len(src) + 1, Len(f))
        made == {copy(f) : f \in DOMAIN Below(d, src)}
    IN  [g \in DOMAIN d \cup made |->
            IF g \in made
            THEN d[CHOOSE f \in DOMAIN Below(d, src) : copy(f) = g]
            ELSE d[g]]

(* LocalSandbox.effective_cwd *)
effective_cwd(overlay) ==
    IF overlay # None THEN Truediv(TheValue(overlay), <<"w", "o", "r", "k", "s", "p", "a", "c", "e">>) ELSE Cwd

(* the source directory holds one file, a; LocalSandbox.__init__ copies the *)
(* directory to the overlay in read-only mode                               *)
SourceTree == [f \in {Resolve(Cwd) \o <<<<"a">>>>} |-> <<"0">>]
InitialDisk(read_only) ==
    IF read_only
    THEN copytree(SourceTree, Resolve(Cwd),
                  Resolve(effective_cwd(Some(Mkdtemp))))
    ELSE SourceTree

(* the block of `async with` has been entered and not left *)
Entered == [left |-> FALSE, exc |-> FALSE, via |-> "none"]

(* the list, set and policy objects when the module is imported: list 1 is *)
(* the module's DANGEROUS_PATTERNS                                          *)
ModuleHeap == [lists |-> <<DANGEROUS_PATTERNS>>, sets |-> <<>>, policies |-> <<>>]

(***************************************************************************)
(* Construction                                                            *)
(***************************************************************************)
(* BaseSandbox.__init__ (safeshell.core): the handle starts open *)
BaseSandboxInit == FALSE

Config(backend, network, allowlist, read_only) ==
    [backend |-> backend, timeout |-> MaxTimeout, network |-> network,
     allowlist |-> allowlist, read_only |-> read_only,
     max_output_bytes |-> 30000]

(* NativeSandbox(cwd, timeout, network, allowlist): nothing is validated *)
NativeConfigs ==
    {Config("native", n, None, FALSE) : n \in NetworkModes}
    \cup {Config("native", "ALLOWLIST", Some(l), FALSE) : l \in Allowlists}
DockerConfigs == {Config("docker", "BLOCKED", None, FALSE)}
LocalConfigs == {Config("local", "ALLOWED", None, r) : r \in BOOLEAN}
LocalPolicies == {standard, permissive, paranoid({Cmd_ls})}

Init ==
    /\ cfg \in NativeConfigs \cup DockerConfigs \cup LocalConfigs
    /\ platform \in (IF cfg.backend = "native" THEN Platforms ELSE {Linux_5_13})
    /\ mechanism = (IF cfg.backend = "native"
                    THEN detect_kernel_isolation(platform) ELSE "NONE")
    /\ closed = (IF cfg.backend = "local" THEN FALSE ELSE BaseSandboxInit)
    /\ proxyRef = 0
    /\ proxy_port = 0
    /\ security \in (IF cfg.backend = "local"
                     THEN {Some(p) : p \in LocalPolicies} ELSE {None})
    /\ overlay_dir = (IF cfg.read_only THEN Some(Mkdtemp) ELSE None)
    /\ overlay_exists = cfg.read_only
    /\ proxies = <<>>
    /\ environ = [v \in {"PATH", "http_proxy"} |->
                     IF v = "PATH" THEN "/usr/bin" ELSE "http://corp:3128"]
    /\ calls = [i \in Calls |-> NoCall]
    /\ child = [i \in Calls |-> NoChild]
    /\ returned = NoOutcome
    /\ stops = 0
    /\ rmtrees = 0
    /\ px = NewProxy
    /\ owner = NoOwner
    /\ conns = [c \in Conns |-> NoConn]
    /\ served = NoServed
    /\ the_policy = None
    /\ policy_out = Verdict("none", <<>>, Admitted(<<>>))
    /\ allowlists = <<>>
    /\ applied = [fn |-> "none"]
    /\ disk = InitialDisk(cfg.read_only)
    /\ scope = Entered
    /\ heap = ModuleHeap

(***************************************************************************)
(* Helpers of execute                                                      *)
(***************************************************************************)
(* tasks are interchangeable: they make their calls in index order *)
CanCall(i) ==
    /\ calls[i].op = "none"
    /\ \A j \in Calls : j < i => calls[j].op # "none"

Begin(op, pc, command, timeout, proxy) ==
    [op |-> op, pc |-> pc, command |-> command, timeout |-> timeout,
     proxy |-> proxy]

(* a finished call keeps nothing but what it was *)
Done(op) == Begin(op, "done", <<>>, None, 0)

(* what the caller of a finished call gets back, with the state its child  *)
(* is in at that moment and the time the call waited for the child         *)
Outcome(op, command, timeout, duration, result, ch) ==
    [op |-> op, command |-> command, timeout |-> timeout,
     duration |-> duration, result |-> result, child |-> ch.state,
     pipes_open |-> ch.pipes_open]

(* if self._closed: raise ExecutionError("Sandbox is closed.") *)
ClosedCheckSkipped(c) == FALSE
ClosedCheck(c) == c

(* timeout_val = timeout if timeout is not None else self.timeout *)
TimeoutValIgnoresArgument(timeout, default) == default
TimeoutVal(timeout, default) ==
    IF timeout # None THEN TheValue(timeout) ELSE default

(* if not self._proxy and self.network == ALLOWLIST and self.allowlist *)
NeedsProxyStartUnguarded(proxy, network, allowlist) ==
    network = "ALLOWLIST" /\ allowlist # None
NeedsProxyStart(proxy, network, allowlist) ==
    proxy = 0 /\ network = "ALLOWLIST" /\ allowlist # None

(* env = os.environ.copy(); if self._proxy_port: env.update({...}) *)
ChildEnv(port, parent) ==
    IF port # 0
    THEN [v \in DOMAIN parent \cup ProxyVars |->
             IF v \in ProxyVars THEN ProxyUrl(port) ELSE parent[v]]
    ELSE parent

(* os.environ after execute built the environment of a child: execute      *)
(* updates a copy (os.environ.copy()), the mapping of the parent is not    *)
(* written                                                                 *)
ParentEnvironUpdated(port, parent) ==
    IF port # 0
    THEN [v \in DOMAIN parent \cup ProxyVars |->
             IF v \in ProxyVars THEN "http://127.0.0.1:" \o ToString(port)
             ELSE parent[v]]
    ELSE parent
ParentEnviron(port, parent) == parent

(* asyncio.create_subprocess_exec / create_subprocess_shell *)
Spawn(command, checked, env) ==
    [state |-> "running", command |-> command, checked |-> checked,
     env |-> env, pipes_open |-> TRUE]

(* exit_code = proc.returncode or 0 *)
ExitCode(returncode) ==
    IF returncode = None \/ returncode = Some(0) THEN 0
    ELSE TheValue(returncode)

(* bytes.decode(errors="replace") of bytes that are valid text *)
Decode(data) == data

(* types.CommandResult (native, docker) *)
CommandResult(stdout, stderr, exit_code, timed_out) ==
    [stdout |-> stdout, stderr |-> stderr, exit_code |-> exit_code,
     timed_out |-> timed_out]

(* return CommandResult("", "Command timed out.", -1, timed_out=True) *)
Text_timed_out ==
    <<"C", "o", "m", "m", "a", "n", "d", " ", "t", "i", "m", "e", "d", " ", "o", "u", "t", ".">>
TimedOutResult == CommandResult(<<>>, Text_timed_out, 0 - 1, TRUE)

(* str(n) as characters *)
RECURSIVE DigitsOf(_)
DigitChar(d) ==
    CASE d = 0 -> "0" [] d = 1 -> "1" [] d = 2 -> "2" [] d = 3 -> "3"
      [] d = 4 -> "4" [] d = 5 -> "5" [] d = 6 -> "6" [] d = 7 -> "7"
      [] d = 8 -> "8" [] d = 9 -> "9"
DigitsOf(n) ==
    IF n < 10 THEN <<DigitChar(n)>>
    ELSE Append(DigitsOf(n \div 10), DigitChar(n % 10))

(* _types.CommandResult (local): no timed_out field *)
LocalCommandResult(stdout, stderr, exit_code, truncated) ==
    [stdout |-> stdout, stderr |-> stderr, exit_code |-> exit_code,
     truncated |-> truncated]

(* f"Command timed out after {timeout}s" *)
Text_timed_out_after ==
    <<"C", "o", "m", "m", "a", "n", "d", " ", "t", "i", "m", "e", "d", " ", "o", "u", "t", " ", "a", "f", "t", "e", "r", " ">>
LocalTimedOutResult(timeout) ==
    LocalCommandResult(<<>>, Text_timed_out_after \o DigitsOf(timeout) \o <<"s">>,
                       0 - 1, FALSE)

(* f"\n\n[Truncated: {n} characters removed]" *)
TruncationMarker(n) ==
    <<"\n", "\n", "[", "T", "r", "u", "n", "c", "a", "t", "e", "d", ":", " ">>
    \o DigitsOf(n)
    \o <<" ", "c", "h", "a", "r", "a", "c", "t", "e", "r", "s", " ",
         "r", "e", "m", "o", "v", "e", "d", "]">>

(* LocalSandbox._decode_and_truncate *)
DecodeAndTruncate(data, max_output_bytes) ==
    LET text == Decode(data)
    IN  IF Len(text) > max_output_bytes
        THEN [text |-> SubSeq(text, 1, max_output_bytes)
                       \o TruncationMarker(Len(text) - max_output_bytes),
              truncated |-> TRUE]
        ELSE [text |-> text, truncated |-> FALSE]


(* the process has been waited for: it is gone, its pipes are closed *)
Reap(ch) == [ch EXCEPT !.state = "reaped", !.pipes_open = FALSE, !.env = <<>>]

(***************************************************************************)
(* networking.py: strings                                                  *)
(***************************************************************************)
(* str.lower() *)
lower(s) ==
    LET upper == <<"A", "B", "C", "D", "E", "F", "G", "H", "I", "J", "K", "L", "M", "N",
                 "O", "P", "Q", "R", "S", "T", "U", "V", "W", "X", "Y", "Z">>
        lowered == <<"a", "b", "c", "d", "e", "f", "g", "h", "i", "j", "k", "l", "m", "n",
                 "o", "p", "q", "r", "s", "t", "u", "v", "w", "x", "y", "z">>
    IN  [k \in 1..Len(s) |->
            IF \E m \in 1..Len(upper) : upper[m] = s[k]
            THEN lowered[CHOOSE m \in 1..Len(upper) : upper[m] = s[k]]
            ELSE s[k]]

(* str.startswith, str.endswith *)
StartsWith(s, p) == Len(p) <= Len(s) /\ SubSeq(s, 1, Len(p)) = p
EndsWith(s, p) == Len(p) <= Len(s) /\ SubSeq(s, Len(s) - Len(p) + 1, Len(s)) = p

(* NetworkAllowlist.matches *)
matches(allowlist, domain) ==
    LET d == lower(domain)
    IN  \E pattern \in allowlist.domains :
            IF StartsWith(pattern, <<"*", ".">>)
            THEN EndsWith(d, Tail(pattern)) \/ d = Tail(Tail(pattern))
            ELSE d = pattern

(* the index of the first character of s that is in set, 0 when none is *)
Find(s, set) ==
    IF \E k \in 1..Len(s) : s[k] \in set
    THEN CHOOSE k \in 1..Len(s) :
             s[k] \in set /\ \A m \in 1..(k - 1) : s[m] \notin set
    ELSE 0
(* s.split(c)[0]; for a set of characters, the match of [^...]* at the start *)
Before(s, set) == IF Find(s, set) = 0 THEN s ELSE SubSeq(s, 1, Find(s, set) - 1)

Method_CONNECT == <<"C", "O", "N", "N", "E", "C", "T">>

(* AllowlistProxy._extract_domain: target.split(":")[0] for CONNECT, else   *)
(* group 1 of re.match(r"(?:https?://)?([^/:]+)", target), None without a  *)
(* match; the optional scheme is given up when no host follows it           *)
extract_domain(method, target) ==
    IF method = Method_CONNECT THEN Some(Before(target, {":"}))
    ELSE LET schemes == {p \in {<<"h", "t", "t", "p", ":", "/", "/">>,
                                <<"h", "t", "t", "p", "s", ":", "/", "/">>} :
                             StartsWith(target, p)}
             rest == IF schemes = {} THEN target
                     ELSE SubSeq(target, Len(CHOOSE p \in schemes : TRUE) + 1,
                                 Len(target))
         IN  IF Before(rest, {"/", ":"}) # <<>>
             THEN Some(Before(rest, {"/", ":"}))
             ELSE IF Before(target, {"/", ":"}) # <<>>
             THEN Some(Before(target, {"/", ":"}))
             ELSE None

(* _tunnel_https: host, port = (target.split(":", 1) + ["443"])[:2] *)
TunnelAddress(target) ==
    [host |-> Before(target, {":"}),
     port |-> IF Find(target, {":"}) = 0 THEN <<"4", "4", "3">>
              ELSE SubSeq(target, Find(target, {":"}) + 1, Len(target))]
(* int(port) returns; it raises ValueError otherwise *)
IsInt(s) == s # <<>> /\ \A k \in 1..Len(s) : s[k] \in Digits

(* _send_error: f"HTTP/1.1 {code} Error\r\nConnection: close\r\n\r\n{msg}" *)
ErrorResponse(code, msg) ==
    <<"H", "T", "T", "P", "/", "1", ".", "1", " ">>
    \o DigitsOf(code)
    \o <<" ", "E", "r", "r", "o", "r", "\r", "\n", "C", "o", "n", "n", "e", "c", "t", "i", "o", "n", ":", " ", "c", "l", "o", "s", "e", "\r", "\n", "\r", "\n">>
    \o msg
(* f"Access to {domain} blocked by policy." *)
BlockedMessage(domain) ==
    <<"A", "c", "c", "e", "s", "s", " ", "t", "o", " ">>
    \o (IF domain = None THEN <<"N", "o", "n", "e">> ELSE TheValue(domain))
    \o <<" ", "b", "l", "o", "c", "k", "e", "d", " ", "b", "y", " ", "p", "o", "l", "i", "c", "y", ".">>
(* b"HTTP/1.1 200 Connection Established\r\n\r\n" *)
ConnectionEstablished ==
    <<"H", "T", "T", "P", "/", "1", ".", "1", " ", "2", "0", "0", " ", "C", "o", "n", "n", "e", "c", "t", "i", "o", "n", " ", "E", "s", "t", "a", "b", "l", "i", "s", "h", "e", "d", "\r", "\n", "\r", "\n">>

(* the first lines clients send; b"" is the end of the stream *)
RequestLines ==
    {<<"C", "O", "N", "N", "E", "C", "T", " ", "e", "x", "a", "m", "p", "l", "e", ".", "c", "o", "m", ":", "4", "4", "3", " ", "H", "T", "T", "P", "/", "1", ".", "1", "\r", "\n">>,
     <<"C", "O", "N", "N", "E", "C", "T", " ", "b", "l", "o", "c", "k", "e", "d", ".", "t", "e", "s", "t", ":", "4", "4", "3", " ", "H", "T", "T", "P", "/", "1", ".", "1", "\r", "\n">>,
     <<"C", "O", "N", "N", "E", "C", "T", " ", "E", "x", "a", "m", "p", "l", "e", ".", "c", "o", "m", ":", "h", "t", "t", "p", "s", " ", "H", "T", "T", "P", "/", "1", ".", "1", "\r", "\n">>,
     <<"C", "O", "N", "N", "E", "C", "T", " ", ":", "4", "4", "3", " ", "H", "T", "T", "P", "/", "1", ".", "1", "\r", "\n">>,
     <<"G", "E", "T", " ", "h", "t", "t", "p", ":", "/", "/", "e", "x", "a", "m", "p", "l", "e", ".", "c", "o", "m", "/", " ", "H", "T", "T", "P", "/", "1", ".", "1", "\r", "\n">>,
     <<"G", "E", "T", " ", "/", "i", "n", "d", "e", "x", ".", "h", "t", "m", "l", " ", "H", "T", "T", "P", "/", "1", ".", "1", "\r", "\n">>,
     <<"G", "E", "T", "\r", "\n">>,
     <<>>}

(***************************************************************************)
(* NativeSandbox.execute                                                   *)
(***************************************************************************)
(* From the call to the first suspension: the closed check, then either    *)
(* the proxy is created and its start awaited, or the child is spawned.    *)
NativeExecute(i, command, timeout) ==
    /\ cfg.backend = "native"
    /\ CanCall(i)
    /\ IF ClosedCheck(closed)
       THEN /\ calls' = [calls EXCEPT ![i] = Done("execute")]
            /\ returned' = Outcome("execute", command, timeout, 0,
                                   Raised("ExecutionError"), NoChild)
            /\ UNCHANGED <<proxyRef, proxies, child, environ>>
       ELSE IF NeedsProxyStart(proxyRef, cfg.network, cfg.allowlist)
       THEN /\ proxies' = Append(proxies, NewProxy)
            /\ proxyRef' = Len(proxies) + 1
            /\ calls' = [calls EXCEPT ![i] =
                   Begin("execute", "proxy_start", command, timeout,
                         Len(proxies) + 1)]
            /\ UNCHANGED <<child, returned, environ>>
       ELSE /\ child' = [child EXCEPT ![i] =
                   Spawn(build_command(mechanism, cfg.network, command),
                         FALSE, ChildEnv(proxy_port, environ))]
            /\ environ' = ParentEnviron(proxy_port, environ)
            /\ calls' = [calls EXCEPT ![i] =
                   Begin("execute", "communicate", command, timeout, 0)]
            /\ UNCHANGED <<proxyRef, proxies, returned>>
    /\ UNCHANGED <<platform, mechanism, cfg, closed, proxy_port, security, overlay_dir,
                   overlay_exists, stops, rmtrees>>
    /\ UNCHANGED aside

(* ports some listening socket holds *)
PortsInUse ==
    {proxies[p].port : p \in {q \in DOMAIN proxies : proxies[q].listening}}

(* AllowlistProxy.start returns: the server listens on a port the kernel   *)
(* chose; execute records the port, injects it and spawns the child.       *)
NativeProxyStarted(i, port) ==
    /\ calls[i].pc = "proxy_start"
    /\ port \notin PortsInUse
    /\ proxies' = [proxies EXCEPT ![calls[i].proxy] =
           [server |-> TRUE, port |-> port, listening |-> TRUE]]
    /\ proxy_port' = port
    /\ child' = [child EXCEPT ![i] =
           Spawn(build_command(mechanism, cfg.network, calls[i].command),
                 FALSE, ChildEnv(port, environ))]
    /\ environ' = ParentEnviron(port, environ)
    /\ calls' = [calls EXCEPT ![i].pc = "communicate"]
    /\ UNCHANGED <<platform, mechanism, cfg, closed, proxyRef, security, overlay_dir,
                   overlay_exists, returned, stops, rmtrees>>
    /\ UNCHANGED aside

(* asyncio.start_server raises (no free descriptor, ...): the error leaves *)
(* execute before its try block, self._proxy keeps the unstarted object.   *)
NativeProxyStartFailed(i) ==
    /\ calls[i].pc = "proxy_start"
    /\ calls' = [calls EXCEPT ![i] = Done("execute")]
    /\ returned' = Outcome("execute", calls[i].command, calls[i].timeout, 0,
                           Raised("OSError"), NoChild)
    /\ UNCHANGED <<handle, child>>
    /\ UNCHANGED aside

(***************************************************************************)
(* DockerSandbox.execute                                                   *)
(***************************************************************************)
DockerExecute(i, command, timeout) ==
    /\ cfg.backend = "docker"
    /\ CanCall(i)
    /\ IF closed
       THEN /\ calls' = [calls EXCEPT ![i] = Done("execute")]
            /\ returned' = Outcome("execute", command, timeout, 0,
                                   Raised("ExecutionError"), NoChild)
            /\ UNCHANGED child
       ELSE /\ child' = [child EXCEPT ![i] = Spawn(command, FALSE, environ)]
            /\ calls' = [calls EXCEPT ![i] =
                   Begin("execute", "communicate", command, timeout, 0)]
            /\ UNCHANGED returned
    /\ UNCHANGED handle
    /\ UNCHANGED aside

(***************************************************************************)
(* LocalSandbox.execute                                                    *)
(***************************************************************************)
(* if self._closed: raise RuntimeError("Sandbox has been closed") *)
LocalClosedCheckMissing(c) == FALSE
LocalClosedCheck(c) == c
ClosedError ==
    [Raised("RuntimeError") EXCEPT !.value = <<"S", "a", "n", "d", "b", "o", "x", " ", "h", "a", "s", " ", "b", "e", "e", "n", " ", "c", "l", "o", "s", "e", "d">>]

(* env=self._env is None here: the child inherits the parent environment *)
LocalExecute(i, command, timeout) ==
    /\ cfg.backend = "local"
    /\ CanCall(i)
    /\ LET verdict == check_command(TheValue(security), command)
       IN  IF LocalClosedCheck(closed)
           THEN /\ calls' = [calls EXCEPT ![i] = Done("execute")]
                /\ returned' = Outcome("execute", command, timeout, 0,
                                       ClosedError, NoChild)
                /\ UNCHANGED child
           ELSE IF verdict.raised
           THEN /\ calls' = [calls EXCEPT ![i] = Done("execute")]
                /\ returned' = Outcome("execute", command, timeout, 0,
                                       Raised("SecurityViolation"), NoChild)
                /\ UNCHANGED child
           ELSE /\ child' = [child EXCEPT ![i] =
                       Spawn(verdict.value, TRUE, environ)]
                /\ calls' = [calls EXCEPT ![i] =
                       Begin("execute", "communicate", command, timeout, 0)]
                /\ UNCHANGED returned
    /\ UNCHANGED handle
    /\ UNCHANGED aside

(***************************************************************************)
(* await asyncio.wait_for(proc.communicate(), timeout=...)                 *)
(***************************************************************************)
Deadline(i) == TimeoutVal(calls[i].timeout, cfg.timeout)

(* the result execute builds when communicate() returns *)
CompletedResult(backend, returncode, out, max_output_bytes) ==
    IF backend = "local"
    THEN LET o == DecodeAndTruncate(out.stdout, max_output_bytes)
             e == DecodeAndTruncate(out.stderr, max_output_bytes)
         IN  LocalCommandResult(o.text, e.text, ExitCode(returncode),
                                o.truncated \/ e.truncated)
    ELSE CommandResult(Decode(out.stdout), Decode(out.stderr),
                       ExitCode(returncode), FALSE)

(* the child terminates after d units of time, before the deadline:        *)
(* communicate() returns once both pipes reached EOF and the process was   *)
(* waited for                                                              *)
ChildTerminated(i, d, returncode, out) ==
    /\ calls[i].pc = "communicate"
    /\ d < Deadline(i)
    /\ child' = [child EXCEPT ![i] = Reap(@)]
    /\ calls' = [calls EXCEPT ![i] = Done("execute")]
    /\ returned' = Outcome("execute", calls[i].command, calls[i].timeout, d,
           Returned(CompletedResult(cfg.backend, Some(returncode), out,
                                    cfg.max_output_bytes)),
           child'[i])
    /\ UNCHANGED handle
    /\ UNCHANGED aside

(* the child is still running at the deadline: wait_for raises             *)
(* TimeoutError.  native/docker: proc.kill() and return; local:            *)
(* proc.kill() and await proc.wait()                                       *)
DeadlineExpired(i) ==
    /\ calls[i].pc = "communicate"
    /\ child' = [child EXCEPT ![i].state = "killed"]
    /\ IF cfg.backend = "local"
       THEN /\ calls' = [calls EXCEPT ![i].pc = "reap"]
            /\ UNCHANGED returned
       ELSE /\ calls' = [calls EXCEPT ![i] = Done("execute")]
            /\ returned' = Outcome("execute", calls[i].command,
                   calls[i].timeout, Deadline(i), Returned(TimedOutResult),
                   child'[i])
    /\ UNCHANGED handle
    /\ UNCHANGED aside

(* what the caller of execute sees when exc is raised at or after the      *)
(* spawn: native and docker catch Exception and raise ExecutionError from  *)
(* it, local has no handler but the one for TimeoutError                   *)
Escaped(backend, exc) ==
    IF backend = "local"
    THEN Raised(exc)
    ELSE [Raised("ExecutionError") EXCEPT !.value = <<exc>>]

(* asyncio.create_subprocess_exec / create_subprocess_shell raises: the    *)
(* working directory or the program is missing, no process can be made.    *)
(* On native the proxy may have been started first.                        *)
SpawnFailed(i, command, timeout) ==
    /\ \/ /\ CanCall(i)
          /\ CASE cfg.backend = "native" ->
                      /\ ~ClosedCheck(closed)
                      /\ ~NeedsProxyStart(proxyRef, cfg.network, cfg.allowlist)
               [] cfg.backend = "docker" -> ~closed
               [] cfg.backend = "local" ->
                      /\ ~closed
                      /\ ~check_command(TheValue(security), command).raised
          /\ UNCHANGED <<proxies, proxy_port>>
       \/ /\ calls[i].pc = "proxy_start"
          /\ command = calls[i].command
          /\ timeout = calls[i].timeout
          /\ \E port \in Ports \ PortsInUse :
                /\ proxies' = [proxies EXCEPT ![calls[i].proxy] =
                       [server |-> TRUE, port |-> port, listening |-> TRUE]]
                /\ proxy_port' = port
    /\ calls' = [calls EXCEPT ![i] = Done("execute")]
    /\ returned' = Outcome("execute", command, timeout, 0,
                           Escaped(cfg.backend, "FileNotFoundError"), NoChild)
    /\ UNCHANGED <<platform, mechanism, cfg, closed, proxyRef, security, overlay_dir,
                   overlay_exists, environ, stops, rmtrees, child>>
    /\ UNCHANGED aside

(* proc.communicate() raises on a pipe of the child as soon as it is       *)
(* awaited, before the deadline: nothing kills or waits for the child on   *)
(* this path                                                               *)
CommunicateFailed(i) ==
    /\ calls[i].pc = "communicate"
    /\ 0 < Deadline(i)
    /\ calls' = [calls EXCEPT ![i] = Done("execute")]
    /\ returned' = Outcome("execute", calls[i].command, calls[i].timeout, 0,
                           Escaped(cfg.backend, "BrokenPipeError"), child[i])
    /\ UNCHANGED <<handle, child>>
    /\ UNCHANGED aside

(* the event loop's child watcher waits for a killed child; a local        *)
(* execute suspended in proc.wait() then returns its timeout result        *)
ChildReaped(i) ==
    /\ child[i].state = "killed"
    /\ child' = [child EXCEPT ![i] = Reap(@)]
    /\ IF calls[i].pc = "reap"
       THEN /\ calls' = [calls EXCEPT ![i] = Done("execute")]
            /\ returned' = Outcome("execute", calls[i].command,
                   calls[i].timeout, Deadline(i),
                   Returned(LocalTimedOutResult(Deadline(i))), child'[i])
       ELSE UNCHANGED <<calls, returned>>
    /\ UNCHANGED handle
    /\ UNCHANGED aside

(* the caller cancels the task, d units of time after the spawn, while it  *)
(* waits for the child: CancelledError is a BaseException, neither `except *)
(* TimeoutError` nor `except Exception` catches it, and no finally clause  *)
(* touches the process                                                     *)
Cancel(i, d) ==
    /\ \/ calls[i].pc = "communicate" /\ d < Deadline(i)
       \/ calls[i].pc = "reap" /\ d = Deadline(i)
    /\ calls' = [calls EXCEPT ![i] = Done("execute")]
    /\ returned' = Outcome("execute", calls[i].command, calls[i].timeout, d,
                           Raised("CancelledError"), child[i])
    /\ UNCHANGED <<handle, child>>
    /\ UNCHANGED aside

(***************************************************************************)
(* close                                                                   *)
(***************************************************************************)
CloseOutcome == Outcome("close", <<>>, None, 0, Returned(<<>>), NoChild)

(* if self._proxy *)
HasProxy(proxy) == proxy # 0

(* NativeSandbox.close up to `await self._server.wait_closed()` inside     *)
(* AllowlistProxy.stop; stop on a proxy without server does not suspend    *)
NativeClose(i) ==
    /\ cfg.backend = "native"
    /\ CanCall(i)
    /\ closed' = TRUE
    /\ IF HasProxy(proxyRef)
       THEN IF proxies[proxyRef].server
            THEN /\ proxies' = [proxies EXCEPT ![proxyRef].listening = FALSE]
                 /\ stops' = stops + 1
                 /\ calls' = [calls EXCEPT ![i] =
                        Begin("close", "wait_closed", <<>>, None, proxyRef)]
                 /\ UNCHANGED <<proxyRef, returned>>
            ELSE /\ proxyRef' = 0
                 /\ calls' = [calls EXCEPT ![i] = Done("close")]
                 /\ returned' = CloseOutcome
                 /\ UNCHANGED <<proxies, stops>>
       ELSE /\ calls' = [calls EXCEPT ![i] = Done("close")]
            /\ returned' = CloseOutcome
            /\ UNCHANGED <<proxyRef, proxies, stops>>
    /\ UNCHANGED <<platform, mechanism, cfg, proxy_port, security, overlay_dir, overlay_exists,
                   environ, child, rmtrees>>
    /\ UNCHANGED aside

(* wait_closed() returns: self._server = None in stop, then                *)
(* self._proxy = None in close                                             *)
NativeCloseResumed(i) ==
    /\ calls[i].pc = "wait_closed"
    /\ proxies' = [proxies EXCEPT ![calls[i].proxy].server = FALSE]
    /\ proxyRef' = 0
    /\ calls' = [calls EXCEPT ![i] = Done("close")]
    /\ returned' = CloseOutcome
    /\ UNCHANGED <<platform, mechanism, cfg, closed, proxy_port, security, overlay_dir,
                   overlay_exists, environ, child, stops, rmtrees>>
    /\ UNCHANGED aside

(* DockerSandbox.close *)
DockerClose(i) ==
    /\ cfg.backend = "docker"
    /\ CanCall(i)
    /\ closed' = TRUE
    /\ calls' = [calls EXCEPT ![i] = Done("close")]
    /\ returned' = CloseOutcome
    /\ UNCHANGED <<platform, mechanism, cfg, proxyRef, proxy_port, security, overlay_dir,
                   overlay_exists, proxies, environ, child, stops, rmtrees>>
    /\ UNCHANGED aside

(* if self._closed: return *)
AlreadyClosed(c) == c
AlreadyClosedRaises ==
    Outcome("close", <<>>, None, 0, Raised("RuntimeError"), NoChild)
AlreadyClosedOutcome == CloseOutcome

(* LocalSandbox.close *)
LocalSandbox_close(i) ==
    /\ cfg.backend = "local"
    /\ CanCall(i)
    /\ calls' = [calls EXCEPT ![i] = Done("close")]
    /\ IF AlreadyClosed(closed)
       THEN /\ returned' = AlreadyClosedOutcome
            /\ UNCHANGED <<closed, overlay_dir, overlay_exists, rmtrees>>
       ELSE /\ returned' = CloseOutcome
            /\ closed' = TRUE
            /\ IF overlay_dir # None /\ overlay_exists
               THEN /\ overlay_exists' = FALSE
                    /\ rmtrees' = rmtrees + 1
                    /\ overlay_dir' = None
               ELSE UNCHANGED <<overlay_dir, overlay_exists, rmtrees>>
    /\ UNCHANGED <<platform, mechanism, cfg, proxyRef, proxy_port, security, proxies, environ,
                   child, stops>>

(* await sandbox.close() *)
LocalClose(i) ==
    /\ LocalSandbox_close(i)
    /\ UNCHANGED aside

(***************************************************************************)
(* LocalSandbox.read_file and write_file                                   *)
(***************************************************************************)
(* the files there are: shutil.rmtree in close took the overlay's away *)
Files ==
    IF cfg.read_only /\ ~overlay_exists
    THEN [f \in {g \in DOMAIN disk : ~Under(Resolve(Mkdtemp), g)} |-> disk[f]]
    ELSE disk

read_file(i, path) ==
    /\ cfg.backend = "local"
    /\ CanCall(i)
    /\ calls' = [calls EXCEPT ![i] = Done("read_file")]
    /\ LET file_path == Resolve(Truediv(effective_cwd(overlay_dir), path))
       IN  returned' = Outcome("read_file", path, None, 0,
                           IF LocalClosedCheck(closed) THEN ClosedError
                           ELSE IF file_path \notin DOMAIN Files
                           THEN Raised("FileNotFoundError")
                           ELSE Returned(Files[file_path]),
                           NoChild)
    /\ UNCHANGED <<handle, child>>
    /\ UNCHANGED aside

write_file(i, path, content) ==
    /\ cfg.backend = "local"
    /\ CanCall(i)
    /\ calls' = [calls EXCEPT ![i] = Done("write_file")]
    /\ LET file_path == Resolve(Truediv(effective_cwd(overlay_dir), path))
       IN  IF LocalClosedCheck(closed)
           THEN /\ returned' = Outcome("write_file", path, None, 0,
                                       ClosedError, NoChild)
                /\ UNCHANGED disk
           ELSE /\ returned' = Outcome("write_file", path, None, 0,
                                       Returned(<<>>), NoChild)
                /\ disk' = write_text(disk, file_path, content)
    /\ UNCHANGED <<handle, child>>
    /\ UNCHANGED <<px, owner, conns, served, the_policy, policy_out,
                   allowlists, applied, scope, heap>>

(***************************************************************************)
(* async with: Sandbox.__aexit__ is `await self.close()`, and               *)
(* SandboxToolkit.__aexit__ is `await self.close()`, which awaits           *)
(* self.sandbox.close().  exc tells whether the block raised.               *)
(***************************************************************************)
AExitOnSuccess(i, exc, via) ==
    /\ ~scope.left
    /\ scope' = [left |-> TRUE, exc |-> exc, via |-> via]
    /\ IF exc
       THEN /\ cfg.backend = "local"
            /\ CanCall(i)
            /\ calls' = [calls EXCEPT ![i] = Done("close")]
            /\ returned' = CloseOutcome
            /\ UNCHANGED <<handle, child>>
       ELSE LocalSandbox_close(i)
    /\ UNCHANGED <<px, owner, conns, served, the_policy, policy_out,
                   allowlists, applied, disk, heap>>
AExit(i, exc, via) ==
    /\ ~scope.left
    /\ scope' = [left |-> TRUE, exc |-> exc, via |-> via]
    /\ LocalSandbox_close(i)
    /\ UNCHANGED <<px, owner, conns, served, the_policy, policy_out,
                   allowlists, applied, disk, heap>>

(***************************************************************************)
(* Specification                                                           *)
(***************************************************************************)
Next ==
    \/ \E i \in Calls, c \in CommandsOf("native"), t \in TimeoutArgs :
           NativeExecute(i, c, t)
    \/ \E i \in Calls, p \in Ports : NativeProxyStarted(i, p)
    \/ \E i \in Calls : NativeProxyStartFailed(i)
    \/ \E i \in Calls, c \in CommandsOf("docker"), t \in TimeoutArgs :
           DockerExecute(i, c, t)
    \/ \E i \in Calls, c \in CommandsOf("local"), t \in TimeoutArgs :
           LocalExecute(i, c, t)
    \/ \E i \in Calls, d \in Durations, rc \in ReturnCodes,
          out \in ChildOutputs : ChildTerminated(i, d, rc, out)
    \/ \E i \in Calls : DeadlineExpired(i)
    \/ \E i \in Calls, c \in CommandsOf(cfg.backend), t \in TimeoutArgs :
           SpawnFailed(i, c, t)
    \/ \E i \in Calls : CommunicateFailed(i)
    \/ \E i \in Calls : ChildReaped(i)
    \/ \E i \in Calls, d \in Durations : Cancel(i, d)
    \/ \E i \in Calls : NativeClose(i)
    \/ \E i \in Calls : NativeCloseResumed(i)
    \/ \E i \in Calls : DockerClose(i)
    \/ \E i \in Calls : LocalClose(i)

Spec == Init /\ [][Next]_vars

(***************************************************************************)
(* AllowlistProxy on its own: one proxy object, constructed with           *)
(* ProxyAllowlist, whose owner calls start and stop and to which clients   *)
(* connect.  The sandbox of Init does not act in this specification.       *)
(***************************************************************************)
Active(c) == conns[c].pc \notin {"idle", "closed"}

(* AllowlistProxy.start up to `await asyncio.start_server(...)`; the owner *)
(* starts a proxy that has no server                                       *)
ProxyStart ==
    /\ Len(owner.log) < MaxProxyOps
    /\ ~px.server /\ ~owner.start
    /\ owner' = [owner EXCEPT !.log = Append(@, "start"), !.start = TRUE]
    /\ UNCHANGED <<px, conns, served, the_policy, policy_out, sandbox,
                   allowlists, applied,
                   disk, scope, heap>>

(* start_server returns: the server listens on the port the kernel chose, *)
(* start records it in self.port and returns it                            *)
ProxyStarted(port) ==
    /\ owner.start
    /\ px' = [server |-> TRUE, port |-> port, listening |-> TRUE]
    /\ owner' = [owner EXCEPT !.start = FALSE, !.last = Returned(port)]
    /\ UNCHANGED <<conns, served, the_policy, policy_out, sandbox,
                   allowlists, applied,
                   disk, scope, heap>>

(* if self._server *)
StopUnguarded(server) == TRUE
StopGuard(server) == server

(* AllowlistProxy.stop: Server.close() closes the listening socket and     *)
(* leaves the accepted connections alone.  wait_closed() returns at once   *)
(* before Python 3.12 (legacy) and when no connection is open; from 3.12   *)
(* on it waits until every accepted connection is closed.                  *)
ProxyStop(legacy) ==
    /\ Len(owner.log) < MaxProxyOps
    /\ ~owner.stop
    /\ IF ~StopGuard(px.server)
       THEN /\ owner' = [owner EXCEPT !.log = Append(@, "stop_noop"),
                                      !.last = Returned(<<>>)]
            /\ UNCHANGED px
       ELSE IF ~px.server
       THEN /\ owner' = [owner EXCEPT !.log = Append(@, "stop_noop"),
                                      !.last = Raised("AttributeError")]
            /\ UNCHANGED px
       ELSE IF legacy \/ \A c \in Conns : ~Active(c)
       THEN /\ px' = [px EXCEPT !.listening = FALSE, !.server = FALSE]
            /\ owner' = [owner EXCEPT !.log = Append(@, "stop"),
                                      !.last = Returned(<<>>)]
       ELSE /\ px' = [px EXCEPT !.listening = FALSE]
            /\ owner' = [owner EXCEPT !.log = Append(@, "stop"),
                                      !.stop = TRUE, !.last = NoResult]
    /\ UNCHANGED <<conns, served, the_policy, policy_out, sandbox,
                   allowlists, applied,
                   disk, scope, heap>>

(* the last accepted connection is closed: wait_closed() returns and stop  *)
(* sets self._server = None                                                *)
ProxyStopResumed ==
    /\ owner.stop
    /\ \A c \in Conns : ~Active(c)
    /\ px' = [px EXCEPT !.server = FALSE]
    /\ owner' = [owner EXCEPT !.stop = FALSE, !.last = Returned(<<>>)]
    /\ UNCHANGED <<conns, served, the_policy, policy_out, sandbox,
                   allowlists, applied,
                   disk, scope, heap>>

(* the server accepts a connection and starts _handle_client, which waits  *)
(* for the first line; clients connect in index order                      *)
Accept(c) ==
    /\ px.listening
    /\ conns[c].pc = "idle"
    /\ \A j \in Conns : j < c => conns[j].pc # "idle"
    /\ conns' = [conns EXCEPT ![c].pc = "readline"]
    /\ UNCHANGED <<px, owner, served, the_policy, policy_out, sandbox,
                   allowlists, applied,
                   disk, scope, heap>>

(* except Exception: pass *)
CaughtNothing(exc) == FALSE
CaughtByExcept(exc) ==
    exc \in {"TimeoutError", "ConnectionResetError", "ValueError", "OSError"}

(* _handle_client ends: `finally: writer.close()`; exc is the exception    *)
(* that reached the outer try, if any                                      *)
Finish(c, line, event, sent, exc) ==
    /\ conns' = [conns EXCEPT ![c] = [NoConn EXCEPT !.pc = "closed"]]
    /\ served' = [line |-> line, event |-> event, method |-> conns[c].method,
                  dialled |-> IF conns[c].pc \in {"idle", "readline"}
                              THEN None ELSE Some(conns[c].host),
                  sent |-> sent, response |-> <<>>,
                  remote |-> conns[c].remote, closed |-> TRUE,
                  escaped |-> exc # None /\ ~CaughtByExcept(TheValue(exc))]

(* if not domain or not self.allowlist.matches(domain) *)
RejectedOnlyWhenMissing(allowlist, domain) ==
    domain = None \/ TheValue(domain) = <<>>
Rejected(allowlist, domain) ==
    domain = None \/ TheValue(domain) = <<>>
        \/ ~matches(allowlist, TheValue(domain))

(* readline() returns: the request line is parsed and the host authorized; *)
(* drained says whether the drain() of the 403 reply succeeds              *)
RequestLine(c, line, drained) ==
    /\ conns[c].pc = "readline"
    /\ LET parts == Split(Decode(line))
       IN  IF line = <<>>
           THEN Finish(c, line, "eof", <<>>, None)
           ELSE IF Len(parts) < 2
           THEN Finish(c, line, "malformed", <<>>, None)
           ELSE LET method == parts[1]
                    target == parts[2]
                    domain == extract_domain(method, target)
                IN  IF Rejected(ProxyAllowlist, domain)
                    THEN Finish(c, line, "rejected",
                                ErrorResponse(403, BlockedMessage(domain)),
                                IF drained THEN None
                                ELSE Some("ConnectionResetError"))
                    ELSE /\ conns' = [conns EXCEPT ![c] =
                               [@ EXCEPT !.pc = "dial", !.method = method,
                                    !.host = IF method = Method_CONNECT
                                             THEN TunnelAddress(target).host
                                             ELSE TheValue(domain),
                                    !.port = IF method = Method_CONNECT
                                             THEN TunnelAddress(target).port
                                             ELSE <<"8", "0">>]]
                         /\ UNCHANGED served
    /\ UNCHANGED <<px, owner, the_policy, policy_out, sandbox,
                   allowlists, applied,
                   disk, scope, heap>>

(* readline() raises: the 10 second deadline passed, the client reset the  *)
(* connection, or the line is longer than the stream's limit               *)
ReadFailed(c, exc) ==
    /\ conns[c].pc = "readline"
    /\ Finish(c, <<>>, IF exc = "TimeoutError" THEN "deadline" ELSE "read_error",
              <<>>, Some(exc))
    /\ UNCHANGED <<px, owner, the_policy, policy_out, sandbox,
                   allowlists, applied,
                   disk, scope, heap>>

(* client_w.write(b"HTTP/1.1 200 ...") comes after open_connection returned *)
TunnelReplyBeforeDial(established) == ConnectionEstablished
TunnelReply(established) ==
    IF established THEN ConnectionEstablished ELSE <<>>

(* await asyncio.open_connection(host, port) returns, or int(port) or the  *)
(* dial raises inside the try of _tunnel_https or _proxy_http              *)
Dialled(c, ok) ==
    /\ conns[c].pc = "dial"
    /\ IF conns[c].method = Method_CONNECT
       THEN IF ok /\ IsInt(conns[c].port)
            THEN /\ conns' = [conns EXCEPT ![c] =
                       [@ EXCEPT !.pc = "tunnel", !.remote = "open",
                            !.sent = TunnelReply(TRUE),
                            !.up = "copying", !.down = "copying"]]
                 /\ UNCHANGED served
            ELSE Finish(c, <<>>, IF IsInt(conns[c].port) THEN "dial_failed"
                                 ELSE "bad_port",
                        TunnelReply(FALSE), None)
       ELSE IF ok
            THEN /\ conns' = [conns EXCEPT ![c] =
                       [@ EXCEPT !.pc = "forward", !.remote = "open"]]
                 /\ UNCHANGED served
            ELSE Finish(c, <<>>, "dial_failed", <<>>, None)
    /\ UNCHANGED <<px, owner, the_policy, policy_out, sandbox,
                   allowlists, applied,
                   disk, scope, heap>>

(* _pipe: one copier ends, at the end of its source ("eof") or on a read   *)
(* or write error; gather(..., return_exceptions=True) returns when both   *)
(* have ended, and nothing closes the remote writer                        *)
CopierEnded(c, dir, how) ==
    /\ conns[c].pc = "tunnel"
    /\ conns[c][dir] = "copying"
    /\ IF conns[c][IF dir = "up" THEN "down" ELSE "up"] = "copying"
       THEN /\ conns' = [conns EXCEPT ![c][dir] = how]
            /\ UNCHANGED served
       ELSE Finish(c, <<>>, "tunnel_ended", conns[c].sent, None)
    /\ UNCHANGED <<px, owner, the_policy, policy_out, sandbox,
                   allowlists, applied,
                   disk, scope, heap>>

(* what a remote sends before it closes: the segments in the order they   *)
(* arrive                                                                  *)
Responses == {[k \in 1..n |-> <<"o", "k">>] : n \in 0..MaxReads}

(* the bytes of the segments, one after the other *)
RECURSIVE Joined(_)
Joined(segments) ==
    IF segments = <<>> THEN <<>> ELSE Head(segments) \o Joined(Tail(segments))

(* data = await remote_r.read(65536): what of the response has arrived, at *)
(* most 65536 bytes of it; b"" only at the end of the stream               *)
ReadOnce(response, arrived) ==
    LET data == Joined(SubSeq(response, 1, arrived))
    IN  SubSeq(data, 1, IF Len(data) < 65536 THEN Len(data) ELSE 65536)

(* _proxy_http after the dial: the request is forwarded, one read of the   *)
(* response is written to the client and the remote writer closed; an      *)
(* error on the way leaves the try block                                   *)
Forwarded(c, ok, response, arrived) ==
    /\ conns[c].pc = "forward"
    /\ arrived \in (IF response = <<>> THEN {0} ELSE 1..Len(response))
    /\ ok \/ (response = <<>> /\ arrived = 0)
    /\ conns' = [conns EXCEPT ![c] = [NoConn EXCEPT !.pc = "closed"]]
    /\ served' = [line |-> <<>>,
                  event |-> IF ok THEN "forwarded" ELSE "forward_failed",
                  method |-> conns[c].method,
                  dialled |-> Some(conns[c].host),
                  sent |-> IF ok THEN ReadOnce(response, arrived) ELSE <<>>,
                  response |-> response,
                  remote |-> IF ok THEN "closed" ELSE "open",
                  closed |-> TRUE, escaped |-> FALSE]
    /\ UNCHANGED <<px, owner, the_policy, policy_out, sandbox,
                   allowlists, applied,
                   disk, scope, heap>>

ProxyInit ==
    /\ Init /\ platform = Linux_5_13
    /\ cfg = Config("native", "ALLOWLIST", Some(ProxyAllowlist), FALSE)

ProxyNext ==
    \/ ProxyStart
    \/ \E p \in Ports : ProxyStarted(p)
    \/ \E legacy \in BOOLEAN : ProxyStop(legacy)
    \/ ProxyStopResumed
    \/ \E c \in Conns : Accept(c)
    \/ \E c \in Conns, line \in RequestLines, drained \in BOOLEAN :
           RequestLine(c, line, drained)
    \/ \E c \in Conns, exc \in {"TimeoutError", "ConnectionResetError", "ValueError"} :
           ReadFailed(c, exc)
    \/ \E c \in Conns, ok \in BOOLEAN : Dialled(c, ok)
    \/ \E c \in Conns, dir \in {"up", "down"}, how \in {"eof", "error"} :
           CopierEnded(c, dir, how)
    \/ \E c \in Conns, ok \in BOOLEAN, response \in Responses,
          arrived \in 0..MaxReads : Forwarded(c, ok, response, arrived)

ProxySpec == ProxyInit /\ [][ProxyNext]_vars

(***************************************************************************)
(* NetworkAllowlist on its own: allow-lists are constructed, extended,     *)
(* united and asked for hosts.                                             *)
(***************************************************************************)
(* the patterns callers write *)
Patterns ==
    {<<"e", "x", "a", "m", "p", "l", "e", ".", "c", "o", "m">>,
     <<"E", "x", "a", "m", "p", "l", "e", ".", "c", "o", "m">>,
     <<"*", ".", "x", ".", "y">>,
     <<"*", ".", "X", ".", "y">>}
(* the hosts callers ask for *)
Hosts ==
    {<<"e", "x", "a", "m", "p", "l", "e", ".", "c", "o", "m">>,
     <<"E", "X", "A", "M", "P", "L", "E", ".", "c", "o", "m">>,
     <<"a", ".", "x", ".", "y">>,
     <<"A", ".", "X", ".", "Y">>,
     <<"x", ".", "y">>,
     <<"x", ".", "y", ".", "z">>,
     <<"a", "x", ".", "y">>}

(* NetworkAllowlist(domains): the dataclass keeps the set it is given *)
NewAllowlist(domains) ==
    /\ Len(allowlists) < MaxLists
    /\ allowlists' = Append(allowlists, [domains |-> domains])
    /\ applied' = [fn |-> "NetworkAllowlist"]
    /\ UNCHANGED <<px, owner, conns, served, the_policy, policy_out, sandbox,
                   disk, scope, heap>>

(* allowlist.add(d): self.domains.add(d.lower()) *)
add(i, d) ==
    /\ i \in DOMAIN allowlists
    /\ Cardinality(allowlists[i].domains) < MaxDomains
    /\ allowlists' = [allowlists EXCEPT ![i].domains = @ \cup {lower(d)}]
    /\ applied' = [fn |-> "add"]
    /\ UNCHANGED <<px, owner, conns, served, the_policy, policy_out, sandbox,
                   disk, scope, heap>>

(* a | b: NetworkAllowlist(self.domains | other.domains), a new object *)
UnionInPlace(i, j) ==
    /\ i \in DOMAIN allowlists /\ j \in DOMAIN allowlists
    /\ Len(allowlists) < MaxLists
    /\ allowlists' = Append([allowlists EXCEPT ![i].domains =
                                 @ \cup allowlists[j].domains],
                            [domains |-> allowlists[i].domains
                                         \cup allowlists[j].domains])
    /\ applied' = [fn |-> "or", left |-> i, right |-> j,
                   made |-> Len(allowlists) + 1]
    /\ UNCHANGED <<px, owner, conns, served, the_policy, policy_out, sandbox,
                   disk, scope, heap>>
Union(i, j) ==
    /\ i \in DOMAIN allowlists /\ j \in DOMAIN allowlists
    /\ Len(allowlists) < MaxLists
    /\ allowlists' = Append(allowlists,
                            [domains |-> allowlists[i].domains
                                         \cup allowlists[j].domains])
    /\ applied' = [fn |-> "or", left |-> i, right |-> j,
                   made |-> Len(allowlists) + 1]
    /\ UNCHANGED <<px, owner, conns, served, the_policy, policy_out, sandbox,
                   disk, scope, heap>>

(* allowlist.matches(h) *)
Matches(i, h) ==
    /\ i \in DOMAIN allowlists
    /\ applied' = [fn |-> "matches", list |-> i, host |-> h,
                   result |-> matches(allowlists[i], h)]
    /\ UNCHANGED <<allowlists, px, owner, conns, served, the_policy,
                   policy_out, sandbox,
                   disk, scope, heap>>

AllowlistInit ==
    /\ Init
    /\ cfg = Config("native", "ALLOWLIST", Some(ProxyAllowlist), FALSE)
    /\ platform = Linux_5_13

AllowlistNext ==
    \/ \E p \in Patterns : NewAllowlist({p})
    \/ NewAllowlist({})
    \/ \E i \in 1..MaxLists, d \in Patterns : add(i, d)
    \/ \E i, j \in 1..MaxLists : Union(i, j)
    \/ \E i \in 1..MaxLists, h \in Hosts : Matches(i, h)

AllowlistSpec == AllowlistInit /\ [][AllowlistNext]_vars

(***************************************************************************)
(* The end of execute on its own: a child that wrote `out` to its pipes    *)
(* has terminated, and the backend makes the result it returns.  The cap   *)
(* is LocalSandbox's max_output_bytes; NativeSandbox and DockerSandbox     *)
(* take no such argument and read no cap.                                  *)
(***************************************************************************)
Complete(backend, max_output_bytes, out, returncode) ==
    /\ applied' = [fn |-> "execute", backend |-> backend,
                   cap |-> max_output_bytes, out |-> out,
                   outcome |-> CompletedResult(backend, Some(returncode), out,
                                               max_output_bytes)]
    /\ UNCHANGED <<allowlists, px, owner, conns, served, the_policy,
                   policy_out, sandbox,
                   disk, scope, heap>>

OutputInit ==
    /\ Init
    /\ cfg = Config("local", "ALLOWED", None, FALSE)
    /\ security = Some(standard)

OutputNext ==
    \E backend \in {"native", "docker", "local"}, cap \in 0..MaxCap,
       n \in 0..MaxOut, m \in 0..MaxOut, returncode \in ReturnCodes :
        Complete(backend, cap,
                 [stdout |-> [k \in 1..n |-> "x"],
                  stderr |-> [k \in 1..m |-> "e"]],
                 returncode)

OutputSpec == OutputInit /\ [][OutputNext]_vars

(***************************************************************************)
(* SecurityPolicy on its own: a policy is constructed, then commands are   *)
(* checked against it.  The sandbox of Init does not act here.             *)
(***************************************************************************)
SecurityLevels == {"PERMISSIVE", "STANDARD", "PARANOID"}
(* the allowed-command sets callers pass: none, {ls, cat}, {rm} *)
AllowedSets == {{}, {Cmd_ls, <<"c", "a", "t">>}, {<<"r", "m">>}}
(* the commands callers check: the ones the tests reject and accept, and *)
(* others with a path, an assignment, two matching rules, outer blanks    *)
PolicyCommands ==
    {<<"r", "m", " ", "-", "r", "f", " ", "/">>,
     <<"r", "m", " ", "-", "r", "f", " ", "~">>,
     <<"c", "u", "r", "l", " ", "h", "t", "t", "p", ":", "/", "/", "x", " ", "|", " ", "s", "h">>,
     <<"c", "u", "r", "l", " ", "h", "t", "t", "p", ":", "/", "/", "x", " ", "|", " ", "b", "a", "s", "h">>,
     <<"w", "g", "e", "t", " ", "-", "O", " ", "-", " ", "h", "t", "t", "p", ":", "/", "/", "x", " ", "|", " ", "s", "h">>,
     <<"c", "u", "r", "l", " ", "h", "t", "t", "p", ":", "/", "/", "x", " ", "|", " ", "p", "y", "t", "h", "o", "n">>,
     <<":", "(", ")", "{", " ", ":", "|", ":", "&", " ", "}", ";", ":">>,
     <<"d", "d", " ", "i", "f", "=", "/", "d", "e", "v", "/", "z", "e", "r", "o", " ", "o", "f", "=", "/", "d", "e", "v", "/", "s", "d", "a">>,
     <<"m", "k", "f", "s", ".", "e", "x", "t", "4", " ", "/", "d", "e", "v", "/", "s", "d", "b", "1">>,
     <<"s", "u", "d", "o", " ", "a", "p", "t", " ", "u", "p", "d", "a", "t", "e">>,
     <<"c", "h", "m", "o", "d", " ", "7", "7", "7", " ", "/">>,
     <<"c", "h", "o", "w", "n", " ", "-", "R", " ", "u", "s", "e", "r", " ", "/">>,
     <<"s", "y", "s", "t", "e", "m", "c", "t", "l", " ", "s", "t", "o", "p", " ", "s", "s", "h", "d">>,
     <<"k", "i", "l", "l", "a", "l", "l", " ", "-", "9", " ", "n", "o", "d", "e">>}
    \cup {<<"l", "s", " ", "-", "l", "a">>,
          <<"c", "a", "t", " ", "/", "e", "t", "c", "/", "p", "a", "s", "s", "w", "d">>,
          <<"g", "r", "e", "p", " ", "-", "r", " ", "'", "p", "a", "t", "t", "e", "r", "n", "'", " ", ".">>,
          <<"f", "i", "n", "d", " ", ".", " ", "-", "n", "a", "m", "e", " ", "'", "*", ".", "p", "y", "'">>,
          <<"r", "m", " ", "-", "r", "f", " ", ".", "/", "t", "e", "m", "p">>,
          <<"r", "m", " ", "f", "i", "l", "e", ".", "t", "x", "t">>}
    \cup {<<"/", "b", "i", "n", "/", "l", "s", " ", "-", "l", "a">>,
          <<"F", "O", "O", "=", "b", "a", "r", " ", "l", "s">>,
          <<"g", "r", "e", "p", " ", "x", " ", "f">>,
          <<"e", "c", "h", "o", " ", "h", "i">>,
          <<"F", "O", "O", "=", "b", "a", "r">>,
          <<"/", "b", "i", "n", "/", "r", "m", " ", "-", "r", "f", " ", "/">>,
          <<"s", "u", "d", "o", " ", "r", "m", " ", "-", "r", "f", " ", "/">>,
          <<" ", "l", "s", " ", "-", "l", "a", " ">>}

(* the rules callers add: (pattern, reason), patterns \bgrep\b and rm *)
CustomPatterns ==
    {<<Cat(<<WB, Str(<<"g", "r", "e", "p">>), WB>>), "Custom dangerous command">>,
     <<Str(<<"r", "m">>), "No rm">>}

(* a policy is made: by the SecurityPolicy constructor with its keyword    *)
(* arguments, or by one of the class methods permissive(), standard(),     *)
(* paranoid(allowed)                                                       *)
NewPolicy(p) ==
    /\ the_policy = None
    /\ the_policy' = Some(p)
    /\ policy_out' = Verdict("SecurityPolicy", <<>>, Admitted(<<>>))
    /\ UNCHANGED <<px, owner, conns, served, sandbox,
                   allowlists, applied,
                   disk, scope, heap>>

(* the `security` argument of create_sandbox_tool: None, a SecurityLevel   *)
(* or a SecurityPolicy                                                     *)
SecurityArgs ==
    {[kind |-> "None", level |-> "", policy |-> None]}
    \cup {[kind |-> "SecurityLevel", level |-> l, policy |-> None] :
              l \in SecurityLevels}
    \cup {[kind |-> "SecurityPolicy", level |-> "", policy |-> Some(paranoid(a))] :
              a \in AllowedSets}

(* create_sandbox_tool, "Resolve security policy" *)
ResolvePolicy(arg) ==
    IF arg.kind = "None" THEN Returned(standard)
    ELSE IF arg.kind = "SecurityLevel"
    THEN IF arg.level = "PARANOID" THEN Raised("ValueError")
         ELSE Returned(SecurityPolicy(arg.level, <<>>, {}))
    ELSE Returned(TheValue(arg.policy))

(* discovery.KNOWN_TOOLS: the names, in the order of the dict *)
KNOWN_TOOLS ==
    <<<<"g", "r", "e", "p">>, <<"f", "i", "n", "d">>, <<"a", "g">>,
      <<"r", "g">>, <<"s", "e", "d">>, <<"a", "w", "k">>, <<"c", "u", "t">>,
      <<"t", "r">>, <<"s", "o", "r", "t">>, <<"u", "n", "i", "q">>,
      <<"c", "a", "t">>, <<"h", "e", "a", "d">>, <<"t", "a", "i", "l">>,
      <<"l", "e", "s", "s">>, <<"w", "c">>, <<"j", "q">>, <<"y", "q">>,
      <<"x", "s", "v">>, <<"m", "l", "r">>, <<"d", "i", "f", "f">>,
      <<"c", "o", "m", "m">>, <<"c", "u", "r", "l">>, <<"w", "g", "e", "t">>,
      <<"p", "y", "t", "h", "o", "n", "3">>,
      <<"p", "y", "t", "h", "o", "n">>, <<"n", "o", "d", "e">>,
      <<"x", "a", "r", "g", "s">>, <<"t", "e", "e">>, <<"l", "s">>,
      <<"t", "r", "e", "e">>, <<"f", "i", "l", "e">>, <<"s", "t", "a", "t">>>>

(* discover_tools: " ".join(f"which {tool} 2>/dev/null;" for tool in ...) *)
RECURSIVE DiscoveryCommand(_)
DiscoveryCommand(tool_names) ==
    IF tool_names = <<>> THEN <<>>
    ELSE <<"w", "h", "i", "c", "h", " ">> \o Head(tool_names)
             \o <<" ", "2", ">", "/", "d", "e", "v", "/", "n", "u", "l", "l", ";">>
             \o (IF Len(tool_names) = 1 THEN <<>>
                 ELSE <<" ">> \o DiscoveryCommand(Tail(tool_names)))

(* create_sandbox_tool: the policy is resolved, a LocalSandbox is made     *)
(* with it, and generate_tool_prompt runs the discovery command through    *)
(* sandbox.execute, that is through check_command of that policy; an       *)
(* exception of either step leaves create_sandbox_tool, no toolkit is      *)
(* made.  The command asks for the first MaxTools names.                   *)
CreateSandboxTool(arg) ==
    /\ the_policy = None
    /\ LET r == ResolvePolicy(arg)
           probe == DiscoveryCommand(SubSeq(KNOWN_TOOLS, 1, MaxTools))
       IN  IF r.kind = "raise"
           THEN /\ policy_out' = Verdict("create_sandbox_tool", <<>>,
                                         SecurityViolation(r.exc, <<>>))
                /\ UNCHANGED the_policy
           ELSE IF check_command(r.value, probe).raised
           THEN /\ policy_out' = Verdict("create_sandbox_tool", probe,
                                         check_command(r.value, probe))
                /\ UNCHANGED the_policy
           ELSE /\ policy_out' = Verdict("create_sandbox_tool", <<>>,
                                         Admitted(<<>>))
                /\ the_policy' = Some(r.value)
    /\ UNCHANGED <<px, owner, conns, served, sandbox,
                   allowlists, applied,
                   disk, scope, heap>>

(* policy.check_command(command) *)
CheckCommand(command) ==
    /\ the_policy # None
    /\ policy_out' = Verdict("check_command", command,
                             check_command(TheValue(the_policy), command))
    /\ UNCHANGED <<the_policy, px, owner, conns, served, sandbox,
                   allowlists, applied,
                   disk, scope, heap>>

(* policy.add_blocked_pattern(pattern, reason) *)
add_blocked_pattern_replacing(pattern, reason) ==
    /\ the_policy # None
    /\ Cardinality({k \in DOMAIN TheValue(the_policy).blocked_patterns :
           TheValue(the_policy).blocked_patterns[k] \in CustomPatterns}) < MaxAdds
    /\ the_policy' = Some([TheValue(the_policy) EXCEPT
                              !.blocked_patterns = <<<<pattern, reason>>>>])
    /\ policy_out' = Verdict("add_blocked_pattern", <<>>, Admitted(<<>>))
    /\ UNCHANGED <<px, owner, conns, served, sandbox,
                   allowlists, applied,
                   disk, scope, heap>>
add_blocked_pattern(pattern, reason) ==
    /\ the_policy # None
    /\ Cardinality({k \in DOMAIN TheValue(the_policy).blocked_patterns :
           TheValue(the_policy).blocked_patterns[k] \in CustomPatterns}) < MaxAdds
    /\ the_policy' = Some([TheValue(the_policy) EXCEPT
                              !.blocked_patterns = Append(@, <<pattern, reason>>)])
    /\ policy_out' = Verdict("add_blocked_pattern", <<>>, Admitted(<<>>))
    /\ UNCHANGED <<px, owner, conns, served, sandbox,
                   allowlists, applied,
                   disk, scope, heap>>

(* policy.add_allowed_command(command) *)
add_allowed_command(command) ==
    /\ the_policy # None
    /\ the_policy' = Some([TheValue(the_policy) EXCEPT
                              !.allowed_commands = @ \cup {command}])
    /\ policy_out' = Verdict("add_allowed_command", command, Admitted(<<>>))
    /\ UNCHANGED <<px, owner, conns, served, sandbox,
                   allowlists, applied,
                   disk, scope, heap>>

PolicyInit ==
    /\ Init
    /\ cfg = Config("local", "ALLOWED", None, FALSE)
    /\ security = Some(standard)

PolicyNext ==
    \/ \E p \in {SecurityPolicy(l, b, a) :
                    l \in SecurityLevels, b \in {<<>>, DANGEROUS_PATTERNS},
                    a \in AllowedSets}
                \cup {permissive, standard}
                \cup {paranoid(a) : a \in AllowedSets} : NewPolicy(p)
    \/ \E s \in SecurityArgs : CreateSandboxTool(s)
    \/ \E c \in PolicyCommands : CheckCommand(c)
    \/ \E r \in CustomPatterns : add_blocked_pattern(r[1], r[2])
    \/ \E c \in {<<"g", "r", "e", "p">>} : add_allowed_command(c)

PolicySpec == PolicyInit /\ [][PolicyNext]_vars

(***************************************************************************)
(* SecurityPolicy objects by identity.  heap.lists and heap.sets are the   *)
(* list and set objects there are, and a policy holds the indices of its   *)
(* two.  A set is the caller's (made by the caller and passed in) or a     *)
(* policy's (made by default_factory).                                      *)
(***************************************************************************)
NewList(h, items) == [h EXCEPT !.lists = Append(@, items)]
NewSet(h, whose, items) ==
    [h EXCEPT !.sets = Append(@, [owner |-> whose, items |-> items])]
NewObject(h, level, blocked, allowed) ==
    [h EXCEPT !.policies =
        Append(@, [level |-> level, blocked |-> blocked, allowed |-> allowed])]

(* what a policy object reads as *)
ValueOf(h, p) ==
    [level |-> h.policies[p].level,
     blocked_patterns |-> h.lists[h.policies[p].blocked],
     allowed_commands |-> h.sets[h.policies[p].allowed].items]

(* allowed = {...} in the caller *)
CallerSet(items) ==
    /\ Cardinality({k \in DOMAIN heap.sets : heap.sets[k].owner = "caller"})
           < MaxCallerSets
    /\ heap' = NewSet(heap, "caller", items)
    /\ UNCHANGED <<handle, sandbox, px, owner, conns, served, the_policy,
                   policy_out, allowlists, applied, disk, scope>>

(* SecurityPolicy.standard(): blocked_patterns=list(DANGEROUS_PATTERNS), a *)
(* new list; allowed_commands from default_factory, a new set              *)
StandardMade ==
    /\ Len(heap.policies) < MaxPolicies
    /\ heap' = NewObject(NewSet(NewList(heap, heap.lists[1]), "policy", {}),
                         "STANDARD", Len(heap.lists) + 1, Len(heap.sets) + 1)
    /\ UNCHANGED <<handle, sandbox, px, owner, conns, served, the_policy,
                   policy_out, allowlists, applied, disk, scope>>

(* SecurityPolicy.paranoid(allowed): allowed_commands=allowed, the caller's *)
(* set itself; blocked_patterns from default_factory, a new list            *)
ParanoidMade(allowed) ==
    /\ Len(heap.policies) < MaxPolicies
    /\ allowed \in DOMAIN heap.sets
    /\ heap.sets[allowed].owner = "caller"
    /\ heap' = NewObject(NewList(heap, <<>>),
                         "PARANOID", Len(heap.lists) + 1, allowed)
    /\ UNCHANGED <<handle, sandbox, px, owner, conns, served, the_policy,
                   policy_out, allowlists, applied, disk, scope>>

(* P.add_blocked_pattern(pattern, reason): self.blocked_patterns.append *)
AddBlockedPatternTo(p, pattern, reason) ==
    /\ p \in DOMAIN heap.policies
    /\ Cardinality({k \in DOMAIN ValueOf(heap, p).blocked_patterns :
           ValueOf(heap, p).blocked_patterns[k] \in CustomPatterns}) < MaxAdds
    /\ heap' = [heap EXCEPT !.lists[heap.policies[p].blocked] =
                                Append(@, <<pattern, reason>>)]
    /\ UNCHANGED <<handle, sandbox, px, owner, conns, served, the_policy,
                   policy_out, allowlists, applied, disk, scope>>

(* P.add_allowed_command(command): self.allowed_commands.add *)
AddAllowedCommandTo(p, command) ==
    /\ p \in DOMAIN heap.policies
    /\ heap' = [heap EXCEPT !.sets[heap.policies[p].allowed].items =
                                @ \cup {command}]
    /\ UNCHANGED <<handle, sandbox, px, owner, conns, served, the_policy,
                   policy_out, allowlists, applied, disk, scope>>

SharingInit ==
    /\ Init
    /\ cfg = Config("local", "ALLOWED", None, FALSE)
    /\ security = Some(standard)

SharingNext ==
    \/ \E a \in AllowedSets : CallerSet(a)
    \/ StandardMade
    \/ \E k \in 1..(MaxPolicies + MaxCallerSets) : ParanoidMade(k)
    \/ \E p \in 1..MaxPolicies, r \in CustomPatterns :
           AddBlockedPatternTo(p, r[1], r[2])
    \/ \E p \in 1..MaxPolicies, c \in {<<"g", "r", "e", "p">>, <<"r", "m">>} :
           AddAllowedCommandTo(p, c)

SharingSpec == SharingInit /\ [][SharingNext]_vars

(***************************************************************************)
(* LocalSandbox with its files, used inside an `async with` block          *)
(***************************************************************************)
(* the paths callers pass: a file of the directory, a new file, and the    *)
(* source file through ".." and by its absolute path                        *)
FilePaths == {<<"a">>, <<"b">>, <<".", ".", "/", ".", ".", "/", ".", ".", "/", "s", "r", "c", "/", "a">>, <<"/", "s", "r", "c", "/", "a">>}

LocalInit ==
    /\ Init
    /\ cfg \in LocalConfigs
    /\ security = Some(standard)

LocalNext ==
    \/ \E i \in Calls, c \in CommandsOf("local") : LocalExecute(i, c, None)
    \/ \E i \in Calls, rc \in {0}, out \in ChildOutputs :
           ChildTerminated(i, 0, rc, out)
    \/ \E i \in Calls : LocalClose(i)
    \/ \E i \in Calls, path \in FilePaths : read_file(i, path)
    \/ \E i \in Calls, path \in FilePaths : write_file(i, path, <<"x">>)
    \/ \E i \in Calls, exc \in BOOLEAN, via \in {"Sandbox", "SandboxToolkit"} :
           AExit(i, exc, via)

LocalSpec == LocalInit /\ [][LocalNext]_vars

(***************************************************************************)
(* Properties                                                              *)
(***************************************************************************)
Spawned(i) == child[i].state # "none"
InFlight(i) == calls[i].pc \notin {"new", "done"}
CloseCalled == \E j \in Calls : calls[j].op = "close"
CloseFinished == \E j \in Calls : calls[j].op = "close" /\ calls[j].pc = "done"
Listening == {p \in DOMAIN proxies : proxies[p].listening}
AllowlistMode ==
    cfg.backend = "native" /\ cfg.network = "ALLOWLIST" /\ cfg.allowlist # None
HasTimedOutField == cfg.backend \in {"native", "docker"}
ExecuteReturned(o) == o.op = "execute" /\ o.result.kind = "return"
ExecuteRaised(o, exc) ==
    o.op = "execute" /\ o.result.kind = "raise" /\ o.result.exc = exc
(* the timeout in force for a finished call, from its arguments *)
EffectiveTimeout(o) ==
    IF o.timeout = None THEN cfg.timeout ELSE TheValue(o.timeout)
(* the result says that the call timed out *)
IsTimeoutResult(o) ==
    /\ ExecuteReturned(o)
    /\ IF HasTimedOutField THEN o.result.value.timed_out
       ELSE o.result.value = LocalTimedOutResult(o.duration)

(* C1: on every backend, a child is spawned only after the policy check    *)
(* of its command succeeded in the same execute call.                      *)
C1_SpawnAfterPolicyCheck ==
    \A i \in Calls : Spawned(i) => child[i].checked

(* C2: once close has returned and no call is in flight any more, no       *)
(* proxy of the sandbox is listening.                                      *)
C2_NoListenerAfterClose ==
    (CloseFinished /\ \A i \in Calls : ~InFlight(i)) => Listening = {}

(* C3: concurrent first executes on an ALLOWLIST sandbox create exactly    *)
(* one AllowlistProxy, and never do two proxies listen.                    *)
C3_OneProxy ==
    /\ Len(proxies) <= 1
    /\ Cardinality(Listening) <= 1
    /\ (AllowlistMode /\ \E i \in Calls : calls[i].op = "execute" /\ InFlight(i))
           => Len(proxies) = 1

C3_Witness ==
    /\ AllowlistMode
    /\ \E i, j \in Calls :
           /\ calls[i].pc = "proxy_start"
           /\ calls[j].op = "execute" /\ calls[j].pc = "communicate"
    /\ Len(proxies) = 1

(* C4: in ALLOWLIST mode with an allow-list, every spawned child has the   *)
(* four proxy variables set to the URL of the sandbox's started proxy.     *)
C4_ChildrenGetProxyEnv ==
    \A i \in Calls :
        (AllowlistMode /\ child[i].state \in {"running", "killed"}) =>
            \E p \in DOMAIN proxies :
                /\ proxies[p].port # 0
                /\ \A v \in ProxyVars :
                       /\ v \in DOMAIN child[i].env
                       /\ child[i].env[v] = ProxyUrl(proxies[p].port)

(* C5: an execute called after close was called on a NativeSandbox or      *)
(* DockerSandbox raises ExecutionError, spawns nothing, starts no proxy.   *)
C5_ExecuteAfterCloseFails ==
    [][\A i \in Calls :
          (/\ cfg.backend \in {"native", "docker"}
           /\ CloseCalled
           /\ calls[i].op = "none"
           /\ calls'[i].op = "execute")
          => /\ calls'[i].pc = "done"
             /\ ExecuteRaised(returned', "ExecutionError")
             /\ child' = child
             /\ proxies' = proxies
             /\ proxyRef' = proxyRef]_vars

C5_Witness ==
    /\ cfg.backend = "native"
    /\ CloseCalled
    /\ ExecuteRaised(returned, "ExecutionError")
    /\ \A i \in Calls : ~Spawned(i)
    /\ proxies = <<>>

(* C6: a close called after an earlier close returned does not raise,      *)
(* leaves the closed flag, the proxy reference and the overlay directory   *)
(* as they were, and stops or removes nothing again.                       *)
C6_CloseIdempotent ==
    [][\A i \in Calls :
          (/\ CloseFinished
           /\ calls[i].op = "none"
           /\ calls'[i].op = "close")
          => /\ calls'[i].pc = "done"
             /\ returned'.op = "close"
             /\ returned'.result.kind = "return"
             /\ closed /\ closed'
             /\ proxyRef' = proxyRef
             /\ overlay_dir' = overlay_dir
             /\ overlay_exists' = overlay_exists
             /\ proxies' = proxies
             /\ stops' = stops
             /\ rmtrees' = rmtrees]_vars

C6_Witness ==
    /\ Cardinality({i \in Calls : calls[i].op = "close" /\ calls[i].pc = "done"}) >= 2
    /\ stops + rmtrees = 1
    /\ returned.op = "close"

C8_TimedOutChildReaped ==
    IsTimeoutResult(returned) => returned.child = "reaped"

(* C9: when execute is cancelled after the spawn, the child has been       *)
(* killed and reaped and its pipes released when the caller gets control.  *)
C9_CancelledChildReaped ==
    (ExecuteRaised(returned, "CancelledError") /\ returned.child # "none")
        => returned.child = "reaped" /\ ~returned.pipes_open

(* C10: a result with exit_code = -1 has timed_out = true, however the     *)
(* child terminated.                                                       *)
C10_MinusOneMeansTimeout ==
    (HasTimedOutField /\ ExecuteReturned(returned)
        /\ returned.result.value.exit_code = 0 - 1)
        => returned.result.value.timed_out

Line_CONNECT_blocked ==
    <<"C", "O", "N", "N", "E", "C", "T", " ", "b", "l", "o", "c", "k", "e", "d", ".", "t", "e", "s", "t", ":", "4", "4", "3", " ", "H", "T", "T", "P", "/", "1", ".", "1", "\r", "\n">>
Text_403 == <<"H", "T", "T", "P", "/", "1", ".", "1", " ", "4", "0", "3", " ">>
Header_Connection_close ==
    <<"\r", "\n", "C", "o", "n", "n", "e", "c", "t", "i", "o", "n", ":", " ", "c", "l", "o", "s", "e", "\r", "\n">>
Contains(s, p) ==
    \E k \in 0..(Len(s) - Len(p)) : SubSeq(s, k + 1, k + Len(p)) = p
(* the host of a request line of at least two words *)
LineHost(line) == extract_domain(Split(line)[1], Split(line)[2])
Dialling(c) == conns[c].pc \in {"dial", "tunnel", "forward"}
LastOp == IF owner.log = <<>> THEN "none" ELSE owner.log[Len(owner.log)]

(* C11: the proxy dials only hosts that match the allow-list; for a        *)
(* request line whose host is missing or does not match it dials nothing,  *)
(* writes an HTTP/1.1 403 response with Connection: close, and closes the  *)
(* client connection.                                                      *)
C11_OnlyAllowedHostsDialled ==
    /\ \A c \in Conns : Dialling(c) => matches(ProxyAllowlist, conns[c].host)
    /\ served.dialled # None => matches(ProxyAllowlist, TheValue(served.dialled))
    /\ (/\ Len(Split(served.line)) >= 2
        /\ \/ LineHost(served.line) = None
           \/ TheValue(LineHost(served.line)) = <<>>
           \/ ~matches(ProxyAllowlist, TheValue(LineHost(served.line))))
       => /\ served.dialled = None
          /\ served.remote = "none"
          /\ StartsWith(served.sent, Text_403)
          /\ Contains(served.sent, Header_Connection_close)
          /\ served.closed

C11_Witness ==
    /\ served.line = Line_CONNECT_blocked
    /\ served.event = "rejected"
    /\ StartsWith(served.sent, Text_403)
    /\ \E c \in Conns : conns[c].pc = "tunnel" /\ conns[c].remote = "open"

(* C12: a CONNECT client has been sent bytes only when the outbound        *)
(* connection is established, and then exactly the 200 reply; a CONNECT    *)
(* whose dial failed ends with nothing written and the client closed.      *)
C12_ReplyAfterDial ==
    /\ \A c \in Conns :
           /\ conns[c].pc = "dial" => conns[c].sent = <<>>
           /\ (conns[c].method = Method_CONNECT /\ conns[c].sent # <<>>)
                  => /\ conns[c].remote = "open"
                     /\ conns[c].sent = ConnectionEstablished
    /\ (served.method = Method_CONNECT
            /\ served.event \in {"dial_failed", "bad_port"})
           => /\ served.sent = <<>>
              /\ served.remote = "none"
              /\ served.closed

C12_Witness ==
    /\ served.method = Method_CONNECT
    /\ served.event = "dial_failed"
    /\ served.sent = <<>>
    /\ \E c \in Conns :
           conns[c].pc = "tunnel" /\ conns[c].sent = ConnectionEstablished

(* C13: a tunnel does not outlive the close of either side: no connection  *)
(* stays in its tunnel once one of the two copy directions has ended.      *)
C13_TunnelEndsWithEitherSide ==
    \A c \in Conns :
        conns[c].pc = "tunnel"
            => conns[c].up = "copying" /\ conns[c].down = "copying"

(* C14: once stop has closed the server, the proxy is not listening and    *)
(* no accepted client connection or tunnel is open any more.               *)
C14_StopDropsConnections ==
    LastOp = "stop" => ~px.listening /\ \A c \in Conns : ~Active(c)

(* C15: whatever happens on a connection, its handler ends with the client *)
(* connection closed and no exception leaving it, no start or stop call    *)
(* raises, and a started proxy on which stop was not called since is still *)
(* listening.                                                              *)
C15_ConnectionEventsAreSwallowed ==
    /\ served.event # "none" => served.closed /\ ~served.escaped
    /\ owner.last.kind # "raise"
    /\ (LastOp = "start" /\ ~owner.start) => px.server /\ px.listening

C15_Witness ==
    /\ served.event = "deadline"
    /\ conns[1].pc = "closed"
    /\ conns[2].pc = "tunnel"
    /\ LastOp = "start" /\ px.listening

(* C16: stop on a proxy without server (never started, or stopped) changes *)
(* nothing and returns; after a stop that returned the listening socket is *)
(* closed; a start that returns leaves the proxy listening on the port it  *)
(* returns and records.                                                    *)
C16_StopIdempotentStartAgain ==
    /\ [][(/\ ~px.server
           /\ Len(owner'.log) > Len(owner.log)
           /\ owner'.log[Len(owner'.log)] \in {"stop", "stop_noop"})
          => /\ px' = px
             /\ conns' = conns
             /\ ~owner'.stop
             /\ owner'.last = Returned(<<>>)]_vars
    /\ []((LastOp = "stop" /\ ~owner.stop) => ~px.listening /\ ~px.server)
    /\ [][(owner.start /\ ~owner'.start)
          => /\ px'.server /\ px'.listening
             /\ px'.port \in Ports
             /\ owner'.last = Returned(px'.port)]_vars

C16_Witness ==
    /\ owner.log = <<"start", "stop", "start">>
    /\ ~owner.start
    /\ px.listening
    /\ served.event = "rejected"

(* C17: no command runs in ALLOWLIST mode on a sandbox without allow-list. *)
C17_AllowlistModeHasAllowlist ==
    \A i \in Calls :
        (cfg.network = "ALLOWLIST" /\ Spawned(i)) => cfg.allowlist # None

(* C18: a command that SecurityPolicy.standard() rejects is rejected by    *)
(* SecurityPolicy.paranoid(allowed) too, for every allowed set.            *)
C18_ParanoidBlocksWhatStandardBlocks ==
    (/\ policy_out.op = "check_command"
     /\ \E a \in AllowedSets : the_policy = Some(paranoid(a))
     /\ check_command(standard, policy_out.command).raised)
    => policy_out.raised

Name_ls == <<"l", "s">>
Name_cat == <<"c", "a", "t">>
Cmd_ls_la == <<"l", "s", " ", "-", "l", "a">>
Cmd_bin_ls_la == <<"/", "b", "i", "n", "/", "l", "s", " ", "-", "l", "a">>
Cmd_FOO_ls == <<"F", "O", "O", "=", "b", "a", "r", " ", "l", "s">>
Cmd_grep == <<"g", "r", "e", "p", " ", "x", " ", "f">>
Cmd_echo == <<"e", "c", "h", "o", " ", "h", "i">>
(* the first whitespace-separated word without "=", its directories        *)
(* stripped; empty when there is no such word                              *)
FirstPlainWord(command) ==
    LET words == Split(command)
        plain(k) == \A m \in 1..Len(words[k]) : words[k][m] # "="
        first == {k \in 1..Len(words) :
                     plain(k) /\ \A j \in 1..(k - 1) : ~plain(j)}
    IN  IF first = {} THEN <<>>
        ELSE LET w == words[CHOOSE k \in first : TRUE]
             IN  CHOOSE b \in {SubSeq(w, k, Len(w)) : k \in 1..(Len(w) + 1)} :
                     /\ \A m \in 1..Len(b) : b[m] # "/"
                     /\ (b = w \/ w[Len(w) - Len(b)] = "/")

(* C19: under PARANOID, a command that passes the blocking pass is         *)
(* rejected iff its base command (FirstPlainWord) is non-empty and not in  *)
(* the allowed set, and is returned unchanged otherwise; with allowed =    *)
(* {ls, cat}: "ls -la", "/bin/ls -la", "FOO=bar ls" pass, "grep x f" and   *)
(* "echo hi" are rejected.                                                 *)
C19_ParanoidBaseCommand ==
    (/\ policy_out.op = "check_command"
     /\ the_policy # None
     /\ TheValue(the_policy).level = "PARANOID"
     /\ FirstMatch(TheValue(the_policy).blocked_patterns, policy_out.command) = 0)
    => /\ policy_out.raised
              <=> /\ FirstPlainWord(policy_out.command) # <<>>
                  /\ FirstPlainWord(policy_out.command)
                         \notin TheValue(the_policy).allowed_commands
       /\ ~policy_out.raised => policy_out.value = policy_out.command
       /\ the_policy = Some(paranoid({Name_ls, Name_cat}))
              => /\ policy_out.command \in {Cmd_ls_la, Cmd_bin_ls_la, Cmd_FOO_ls}
                        => ~policy_out.raised
                 /\ policy_out.command \in {Cmd_grep, Cmd_echo}
                        => policy_out.raised

C19_Witness ==
    /\ the_policy = Some(paranoid({Name_ls, Name_cat}))
    /\ policy_out.op = "check_command"
    /\ policy_out.command = Cmd_FOO_ls
    /\ ~policy_out.raised
    /\ policy_out.value = Cmd_FOO_ls

(* C20: no PARANOID policy exists with an empty allowed-command set.       *)
C20_ParanoidNeedsAllowedSet ==
    (the_policy # None /\ TheValue(the_policy).level = "PARANOID")
        => TheValue(the_policy).allowed_commands # {}

Checked == the_policy # None /\ policy_out.op = "check_command"
Rules == TheValue(the_policy).blocked_patterns
Matching == {k \in 1..Len(Rules) : Search(Rules[k][1], policy_out.command)}
Cmd_sudo_rm == <<"s", "u", "d", "o", " ", "r", "m", " ", "-", "r", "f", " ", "/">>
Cmd_padded_ls == <<" ", "l", "s", " ", "-", "l", "a", " ">>
Name_grep == <<"g", "r", "e", "p">>

(* C21: under STANDARD check_command raises with the reason of the first    *)
(* rule, in list order, that matches, and with the command; it returns the  *)
(* command unchanged iff no rule matches; the allowed-command set has no    *)
(* influence on the outcome.                                                *)
C21_StandardFirstRule ==
    (Checked /\ TheValue(the_policy).level = "STANDARD")
    => /\ policy_out.raised <=> Matching # {}
       /\ policy_out.value = policy_out.command
       /\ policy_out.raised
              => \E k \in Matching :
                     /\ \A m \in Matching : k <= m
                     /\ policy_out.reason = Rules[k][2]
       /\ ~policy_out.raised => policy_out.reason = ""
       /\ \A a \in AllowedSets \cup {{policy_out.command}} :
              check_command([TheValue(the_policy) EXCEPT !.allowed_commands = a],
                            policy_out.command)
                  = [raised |-> policy_out.raised, value |-> policy_out.value,
                     reason |-> policy_out.reason]

C21_Witness ==
    /\ Checked
    /\ TheValue(the_policy).level = "STANDARD"
    /\ policy_out.command = Cmd_sudo_rm
    /\ Cardinality(Matching) >= 2
    /\ policy_out.raised
    /\ policy_out.reason = "Recursive delete of root or home directory"

(* C22: under PERMISSIVE check_command returns every command unchanged and  *)
(* never raises; at every level a returned command equals the input.        *)
C22_PermissiveIdentity ==
    Checked
    => /\ TheValue(the_policy).level = "PERMISSIVE" => ~policy_out.raised
       /\ ~policy_out.raised => policy_out.value = policy_out.command

C22_Witness ==
    /\ Checked
    /\ TheValue(the_policy).level = "PERMISSIVE"
    /\ Rules # <<>>
    /\ policy_out.command \in {Cmd_rm_rf_root, Cmd_padded_ls}
    /\ ~policy_out.raised
    /\ policy_out.value = policy_out.command

(* a rule that add_blocked_pattern appended matches the checked command *)
AddedRuleMatches ==
    \E k \in Matching : Rules[k] \in CustomPatterns
(* the checked command has the added name as base command and matches no rule *)
AddedNameChecked ==
    /\ TheValue(the_policy).level = "PARANOID"
    /\ Name_grep \in TheValue(the_policy).allowed_commands
    /\ FirstPlainWord(policy_out.command) = Name_grep
    /\ Matching = {}
(* what was rejected before add_blocked_pattern is rejected after it *)
StaysRejected ==
    (the_policy # None /\ policy_out'.op = "add_blocked_pattern")
    => \A c \in PolicyCommands :
           check_command(TheValue(the_policy), c).raised
               => check_command(TheValue(the_policy'), c).raised

(* C23 as claimed: after add_blocked_pattern every check of a command that  *)
(* matches the added rule raises, whatever the policy's level; after        *)
(* add_allowed_command a PARANOID check of a command with that base command *)
(* and no matching rule is admitted.                                        *)
C23_AddedRuleRejectsAtEveryLevel ==
    Checked
    => /\ AddedRuleMatches => policy_out.raised
       /\ AddedNameChecked => ~policy_out.raised

(* C23 as amended: on a STANDARD or PARANOID policy a check of a command    *)
(* matching an added rule raises; on a PARANOID policy a check of a command *)
(* with an added base command and no matching rule is admitted; a command   *)
(* rejected before add_blocked_pattern is rejected after it.                *)
C23_AddedRuleRejects ==
    /\ [](Checked
          => /\ (AddedRuleMatches /\ TheValue(the_policy).level # "PERMISSIVE")
                    => policy_out.raised
             /\ AddedNameChecked
                    => ~policy_out.raised /\ policy_out.value = policy_out.command)
    /\ [][StaysRejected]_vars

C23_Witness ==
    /\ Checked
    /\ TheValue(the_policy).level = "STANDARD"
    /\ AddedRuleMatches
    /\ Cardinality(Matching) = 1
    /\ policy_out.raised
    /\ policy_out.reason = "Custom dangerous command"

(* the literal inputs the spec lists for the ship-default STANDARD policy *)
ListedRejected ==
    {<<"r", "m", " ", "-", "r", "f", " ", "/">>,
     <<"r", "m", " ", "-", "r", "f", " ", "~">>,
     <<"c", "u", "r", "l", " ", "h", "t", "t", "p", ":", "/", "/", "x", " ", "|", " ", "s", "h">>,
     <<"c", "u", "r", "l", " ", "h", "t", "t", "p", ":", "/", "/", "x", " ", "|", " ", "b", "a", "s", "h">>,
     <<"w", "g", "e", "t", " ", "-", "O", " ", "-", " ", "h", "t", "t", "p", ":", "/", "/", "x", " ", "|", " ", "s", "h">>,
     <<"c", "u", "r", "l", " ", "h", "t", "t", "p", ":", "/", "/", "x", " ", "|", " ", "p", "y", "t", "h", "o", "n">>,
     <<":", "(", ")", "{", " ", ":", "|", ":", "&", " ", "}", ";", ":">>,
     <<"d", "d", " ", "i", "f", "=", "/", "d", "e", "v", "/", "z", "e", "r", "o", " ", "o", "f", "=", "/", "d", "e", "v", "/", "s", "d", "a">>,
     <<"m", "k", "f", "s", ".", "e", "x", "t", "4", " ", "/", "d", "e", "v", "/", "s", "d", "b", "1">>,
     <<"s", "u", "d", "o", " ", "a", "p", "t", " ", "u", "p", "d", "a", "t", "e">>,
     <<"c", "h", "m", "o", "d", " ", "7", "7", "7", " ", "/">>,
     <<"c", "h", "o", "w", "n", " ", "-", "R", " ", "u", "s", "e", "r", " ", "/">>,
     <<"s", "y", "s", "t", "e", "m", "c", "t", "l", " ", "s", "t", "o", "p", " ", "s", "s", "h", "d">>,
     <<"k", "i", "l", "l", "a", "l", "l", " ", "-", "9", " ", "n", "o", "d", "e">>}
ListedAccepted ==
    {<<"l", "s", " ", "-", "l", "a">>,
     <<"c", "a", "t", " ", "/", "e", "t", "c", "/", "p", "a", "s", "s", "w", "d">>,
     <<"g", "r", "e", "p", " ", "-", "r", " ", "'", "p", "a", "t", "t", "e", "r", "n", "'", " ", ".">>,
     <<"f", "i", "n", "d", " ", ".", " ", "-", "n", "a", "m", "e", " ", "'", "*", ".", "p", "y", "'">>,
     <<"r", "m", " ", "-", "r", "f", " ", ".", "/", "t", "e", "m", "p">>,
     <<"r", "m", " ", "f", "i", "l", "e", ".", "t", "x", "t">>}

(* C24: the ship-default STANDARD policy rejects each listed dangerous      *)
(* input with a non-empty reason and returns each listed safe input         *)
(* unchanged.                                                               *)
C24_ShipDefaultLiterals ==
    (Checked /\ the_policy = Some(SecurityPolicy("STANDARD", <<>>, {})))
    => /\ policy_out.command \in ListedRejected
              => policy_out.raised /\ policy_out.reason # ""
       /\ policy_out.command \in ListedAccepted
              => ~policy_out.raised /\ policy_out.value = policy_out.command

C24_Witness ==
    /\ Checked
    /\ the_policy = Some(SecurityPolicy("STANDARD", <<>>, {}))
    /\ policy_out.command = <<"m", "k", "f", "s", ".", "e", "x", "t", "4", " ", "/", "d", "e", "v", "/", "s", "d", "b", "1">>
    /\ policy_out.raised
    /\ policy_out.reason = "Filesystem creation/destruction"

Asked == applied.fn = "matches"
AskedList == allowlists[applied.list].domains
OnlyPattern == CHOOSE p \in AskedList : TRUE
IsWildcard(p) == Len(p) >= 2 /\ p[1] = "*" /\ p[2] = "."
Pattern_wild_xy == <<"*", ".", "x", ".", "y">>

(* C25: for an allow-list holding one pattern p without wildcard, however   *)
(* it was built, matches(h) is true iff lowercase(p) = lowercase(h).        *)
C25_ExactMatchIgnoresCase ==
    (Asked /\ Cardinality(AskedList) = 1 /\ ~IsWildcard(OnlyPattern))
    => (applied.result <=> lower(OnlyPattern) = lower(applied.host))

(* C26: for an allow-list holding one wildcard pattern "*.S", matches(h) is *)
(* true iff h ends with ".S" or equals "S", compared without regard to      *)
(* case; "*.x.y" matches a.x.y and x.y, and neither x.y.z nor ax.y.         *)
C26_WildcardSuffixOrApex ==
    (Asked /\ Cardinality(AskedList) = 1 /\ IsWildcard(OnlyPattern))
    => /\ applied.result
              <=> \/ EndsWith(lower(applied.host), lower(Tail(OnlyPattern)))
                  \/ lower(applied.host) = lower(Tail(Tail(OnlyPattern)))
       /\ OnlyPattern = Pattern_wild_xy
              => (applied.result
                      <=> applied.host \in {<<"a", ".", "x", ".", "y">>, <<"A", ".", "X", ".", "Y">>, <<"x", ".", "y">>})

United == applied.fn = "or"
(* the operands of the last union keep their pattern sets *)
OperandsUnchanged ==
    (applied'.fn = "or" /\ Len(allowlists') = Len(allowlists) + 1)
    => \A k \in DOMAIN allowlists : allowlists'[k] = allowlists[k]

(* C27: a | b matches a host iff a or b matches it; its pattern set is the  *)
(* union of the operands' sets in either order, and a | a has the patterns  *)
(* of a; the union leaves both operands as they were.                       *)
C27_UnionIsSetUnion ==
    /\ [](United
          => /\ \A h \in Hosts :
                    matches(allowlists[applied.made], h)
                        <=> \/ matches(allowlists[applied.left], h)
                            \/ matches(allowlists[applied.right], h)
             /\ allowlists[applied.made].domains
                    = allowlists[applied.right].domains
                          \cup allowlists[applied.left].domains
             /\ applied.left = applied.right
                    => allowlists[applied.made].domains
                           = allowlists[applied.left].domains)
    /\ [][OperandsUnchanged]_vars

C27_Witness ==
    /\ United
    /\ applied.left # applied.right
    /\ \E h1, h2 \in Hosts :
           /\ matches(allowlists[applied.left], h1)
           /\ ~matches(allowlists[applied.right], h1)
           /\ matches(allowlists[applied.right], h2)
           /\ ~matches(allowlists[applied.left], h2)
           /\ matches(allowlists[applied.made], h1)
           /\ matches(allowlists[applied.made], h2)

(* the stream came back capped at n characters, with the marker *)
Capped(stream, back, n) ==
    IF Len(stream) <= n THEN back = stream
    ELSE /\ back = SubSeq(stream, 1, n) \o TruncationMarker(Len(stream) - n)
         /\ Len(back) <= n + Len(TruncationMarker(Len(stream) - n))

(* C28: on every backend each of stdout and stderr comes back capped at the *)
(* configured cap N on its own: unchanged when no longer than N, else its   *)
(* first N characters followed by the marker that counts the rest; the      *)
(* result's truncated flag is set iff one of the streams was longer than N. *)
C28_EachStreamCapped ==
    applied.fn = "execute"
    => /\ Capped(applied.out.stdout, applied.outcome.stdout, applied.cap)
       /\ Capped(applied.out.stderr, applied.outcome.stderr, applied.cap)
       /\ "truncated" \in DOMAIN applied.outcome
       /\ applied.outcome.truncated
              <=> \/ Len(applied.out.stdout) > applied.cap
                  \/ Len(applied.out.stderr) > applied.cap

(***************************************************************************)
(* C29: when the child cannot be spawned, or a pipe of the child fails     *)
(* while execute waits, the caller gets ExecutionError carrying the        *)
(* cause, never a CommandResult and never the OS exception itself.         *)
(***************************************************************************)
OSFailures == {"FileNotFoundError", "BrokenPipeError"}

C29_OSFailureWrapped ==
    returned.op = "execute" /\ returned.result.kind = "raise"
        => returned.result.exc \notin OSFailures

(***************************************************************************)
(* C30: the mechanism of a NativeSandbox is SEATBELT on Darwin with the    *)
(* helper on PATH, LANDLOCK on Linux when the release reads major.minor    *)
(* with major > 5 or (major = 5 and minor >= 13), NONE otherwise; no call  *)
(* changes it; every child is started through the builder that goes with   *)
(* it (a bare "bash -c" when NONE).                                        *)
(***************************************************************************)
(* the release starts with "major.minor", followed by nothing, "." or "-" *)
ReadsAs(release, major, minor) ==
    LET prefix == DigitsOf(major) \o <<".">> \o DigitsOf(minor)
        n == Len(prefix)
    IN  /\ Len(release) >= n
        /\ SubSeq(release, 1, n) = prefix
        /\ Len(release) > n => release[n + 1] \in {".", "-"}

RecentLinux(h) ==
    /\ h.system = "Linux"
    /\ \E major \in 0..9, minor \in 0..19 :
          /\ ReadsAs(h.release, major, minor)
          /\ major > 5 \/ (major = 5 /\ minor >= 13)

BuilderOf(mech) ==
    CASE mech = "SEATBELT" -> "build_seatbelt"
      [] mech = "LANDLOCK" -> "build_landlock"
      [] mech = "NONE" -> "bash -c"

C30_MechanismDetectedOnce ==
    /\ [](cfg.backend = "native" =>
            /\ (platform.system = "Darwin" /\ platform.which # None)
                   => mechanism = "SEATBELT"
            /\ RecentLinux(platform) => mechanism = "LANDLOCK"
            /\ (~(platform.system = "Darwin" /\ platform.which # None)
                    /\ ~RecentLinux(platform)) => mechanism = "NONE"
            /\ \A i \in Calls : child[i].state # "none" =>
                  /\ child[i].command.via = BuilderOf(mechanism)
                  /\ calls[i].pc = "communicate" =>
                         child[i].command.command = calls[i].command)
    /\ [][mechanism' = mechanism]_vars

C30_Witness ==
    /\ cfg.backend = "native"
    /\ platform = Linux_5_13
    /\ mechanism = "LANDLOCK"
    /\ CloseFinished
    /\ \E i \in Calls : /\ child[i].state # "none"
                        /\ child[i].command.via = "build_landlock"
                        /\ ~child[i].command.allow_network

(***************************************************************************)
(* C36: a child spawned in ALLOWLIST mode under SEATBELT or LANDLOCK was   *)
(* built with allow_network = false, so that it reaches the network only   *)
(* through the proxy on loopback.                                          *)
(***************************************************************************)
C36_AllowlistChildrenKernelBlocked ==
    \A i \in Calls :
        /\ cfg.backend = "native"
        /\ cfg.network = "ALLOWLIST"
        /\ mechanism \in {"SEATBELT", "LANDLOCK"}
        /\ child[i].state # "none"
        => ~child[i].command.allow_network

(***************************************************************************)
(* C38: when the proxy start of an ALLOWLIST execute fails, that execute   *)
(* raises and the sandbox records no proxy (so that the next execute       *)
(* starts one again).                                                      *)
(***************************************************************************)
C38_FailedStartForgotten ==
    [][\A i \in Calls :
          /\ calls[i].pc = "proxy_start"
          /\ calls'[i].pc = "done"
          /\ child'[i].state = "none"
          /\ proxies[calls[i].proxy].port = 0
          /\ proxies'[calls[i].proxy].port = 0
          => /\ returned'.op = "execute"
             /\ returned'.result.kind = "raise"
             /\ proxyRef' = 0]_vars

(***************************************************************************)
(* C32: no step changes the environment of the parent process; the        *)
(* environment a child was given is never written again, and it differs    *)
(* from the parent's only in the proxy variables.                          *)
(***************************************************************************)
C32_ParentEnvironUntouched ==
    /\ [](\A i \in Calls : child[i].state \in {"running", "killed"} =>
             \A v \in DOMAIN environ \ ProxyVars :
                 v \in DOMAIN child[i].env /\ child[i].env[v] = environ[v])
    /\ [][/\ environ' = environ
          /\ \A i \in Calls :
                 /\ child[i].state \in {"running", "killed"}
                 /\ child'[i].state \in {"running", "killed"}
                 => child'[i].env = child[i].env]_vars

C32_Witness ==
    /\ cfg.backend = "native"
    /\ proxy_port # 0
    /\ "HTTP_PROXY" \notin DOMAIN environ
    /\ environ["http_proxy"] = "http://corp:3128"
    /\ \E i, j \in Calls :
          /\ child[i].state = "running"
          /\ "HTTP_PROXY" \in DOMAIN child[i].env
          /\ child[i].env["http_proxy"] = ProxyUrl(proxy_port)
          /\ child[i].env["HTTP_PROXY"] = ProxyUrl(proxy_port)
          /\ i # j
          /\ calls[j].op = "execute" /\ calls[j].pc = "done"
          /\ child[j].state = "reaped"

(***************************************************************************)
(* C37: for an authorized plain-HTTP request the proxy delivers the whole  *)
(* response of the remote to the client, whatever the number of reads it   *)
(* takes, before it closes the client connection.                          *)
(***************************************************************************)
C37_WholeResponseDelivered ==
    served.event = "forwarded" =>
        /\ served.closed
        /\ served.sent = Joined(served.response)

(***************************************************************************)
(* C40: when the handling of a client connection has ended, the remote     *)
(* connection opened for it, if any, is closed: after a tunnel, after a    *)
(* failed copy, after a plain-HTTP forward that succeeded or failed.       *)
(***************************************************************************)
C40_RemoteClosedWithClient ==
    served.closed => served.remote \in {"none", "closed"}

(***************************************************************************)
(* C35: create_sandbox_tool returns a toolkit for every SecurityPolicy it  *)
(* is given, PARANOID ones included: the tool-discovery command it runs    *)
(* through the sandbox is never rejected by the policy of the toolkit.     *)
(***************************************************************************)
C35_DiscoveryNotRejected ==
    policy_out.op = "create_sandbox_tool" /\ policy_out.raised
        => policy_out.command = <<>>

(* C34: in read-only mode write_file leaves the files of the source        *)
(* directory as they were, whatever the path and the content                *)
C34_SourceUntouched ==
    [][(cfg.read_only /\ \E i \in Calls :
            calls[i].op = "none" /\ calls'[i].op = "write_file")
       => Below(disk', Resolve(Cwd)) = Below(disk, Resolve(Cwd))]_vars

(* C33: after close on a LocalSandbox, execute, read_file and write_file   *)
(* raise RuntimeError with a message containing "closed"; no subprocess is  *)
(* spawned and no file is read or written                                   *)
C33_ClosedLocalRefuses ==
    [][\A i \in Calls :
          (/\ cfg.backend = "local" /\ closed
           /\ calls[i].op = "none"
           /\ calls'[i].op \in {"execute", "read_file", "write_file"})
          => /\ calls'[i].pc = "done"
             /\ returned'.op = calls'[i].op
             /\ returned'.result.kind = "raise"
             /\ returned'.result.exc = "RuntimeError"
             /\ \E k \in 1..Len(returned'.result.value) :
                    SubSeq(returned'.result.value, k, k + 5) = <<"c", "l", "o", "s", "e", "d">>
             /\ child' = child
             /\ disk' = disk]_vars
C33_Witness ==
    /\ closed
    /\ returned.op = "write_file"
    /\ returned.result = ClosedError

(* C31: once the block of `async with` is left, normally or by an          *)
(* exception, the sandbox is closed and every later execute fails           *)
C31_ScopedAcquisitionCloses ==
    /\ [](scope.left => closed)
    /\ [][\A i \in Calls :
            (scope.left /\ calls[i].op = "none" /\ calls'[i].op = "execute")
            => /\ calls'[i].pc = "done"
               /\ returned'.result.kind = "raise"
               /\ child' = child]_vars
C31_Witness ==
    /\ scope.left /\ scope.exc /\ scope.via = "SandboxToolkit"
    /\ returned.op = "execute"
    /\ returned.result.kind = "raise"

(* C39: add_blocked_pattern and add_allowed_command on a policy P change   *)
(* only P: not the module's default rule list, not any other policy, not   *)
(* the caller's own set                                                     *)
Mutation ==
    /\ heap' # heap
    /\ heap'.policies = heap.policies
    /\ Len(heap'.lists) = Len(heap.lists)
    /\ Len(heap'.sets) = Len(heap.sets)
C39_MutationLocal ==
    [][Mutation
       => /\ heap'.lists[1] = heap.lists[1]
          /\ \A k \in DOMAIN heap.sets :
                 heap.sets[k].owner = "caller" => heap'.sets[k] = heap.sets[k]
          /\ \E p \in DOMAIN heap.policies :
                 \A q \in DOMAIN heap.policies \ {p} :
                     ValueOf(heap', q) = ValueOf(heap, q)]_vars

====
